---- MODULE Spec2Model ----
(***************************************************************************)
(* Model of camhack (worker, master, client).  Parts, each with its own    *)
(* specification over the shared variables:                                *)
(*   SpecReducer  the game-event reducer (game/state.rs)                   *)
(*   SpecDet      two replicas folding one committed sequence              *)
(*   SpecSnap     state machine and snapshots of MemStorage                *)
(*                (raft/storage.rs)                                        *)
(*   SpecEval     the leader's evaluator (game/logic.rs, main.rs)          *)
(*   SpecRepl     the workers of one game, their Raft groups and the       *)
(*                master's registry (main.rs, raft/mod.rs, registry.rs,    *)
(*                master/src/main.rs)                                      *)
(*   SpecGrid     the coordinate functions (game/grid.rs)                  *)
(*   SpecNet      the NetworkManager in the main loop (game/network.rs)    *)
(*   SpecKill     final kills (game/finalkill.rs, main.rs)                 *)
(*   SpecApi      the HTTP command handlers (raft/api.rs, client main.rs)  *)
(*   SpecJoin     POST /join on one client (client/src/main.rs)            *)
(*   SpecWin      the evaluator and the commits between its ticks          *)
(*                (game/logic.rs, main.rs)                                 *)
(*   SpecStore    the log of MemStorage (raft/storage.rs)                  *)
(*   SpecMain     final kills and shutdown as main runs them (main.rs)     *)
(***************************************************************************)
EXTENDS Integers, Sequences, FiniteSets, TLC

VARIABLES
    game_state,     \* reducer: the GameState under test
    prev_state,     \* reducer: the GameState before the last applied event
    last_event,     \* reducer: the last event handed to process_event
    over_at,        \* reducer: log index at which game_over first became true (0 = never)
    now,            \* wall clock in seconds (SystemTime::now)
    det_events,     \* determinism: the committed event sequence
    det_a,          \* determinism: GameState of the replica that applies first
    det_b,          \* determinism: GameState of the replica that applies later
    log,            \* snapshot: the committed log of the source replica
    sm,             \* snapshot: GameStateMachine of the source replica
    snapshot,       \* snapshot: result of build_snapshot (NoSnapshot before)
    replica,        \* snapshot: the replica that installs the snapshot
    eval_state,     \* evaluator: sm.game_state of the leader
    attack_tracker, \* evaluator: AttackTracker.overload_start_times
    tick_events,    \* evaluator: the events returned by the last GameLogic::tick
    episode,        \* evaluator: per target, the overload window observed at the ticks
    rearm,          \* evaluator: per target, the last drop of its loss inside a window
    tick_attackers, \* evaluator: per tile captured by the last tick, its attackers' owners
    role,           \* evaluator: how the replica running the main loop was started
    ticked,         \* evaluator: whether the last iteration of the main loop ran GameLogic::tick
    games,          \* master: the workers registered for the game (games[game_id].workers)
    kill_list,      \* master: the workers a running kill_workers has collected (NoKill if none runs)
    replicas,       \* per worker: position in main, Raft log, state machine
    grid_c,         \* grid: the coord the functions of grid.rs are called on
    grid_d,         \* grid: the other coord
    grid_out,       \* grid: the function called last and what it returned
    network_manager, \* network: NetworkManager of the worker (my_coord, active_attacks)
    sync_done,      \* network: whether sync_with_game_state ran since the last commit
    net_committed,  \* network: coords of the reports of this worker that were committed
    final_kill_manager, \* final kill: FinalKillManager.active_kills and the tasks it spawned
    final_kills_started, \* final kill: the HashSet of the main loop (main.rs:97)
    kill_spawns,    \* final kill: per player, spawns of start_final_kill and ticks that saw it dead
    exited,         \* final kill: whether the process has called std::process::exit
    kill_calls,     \* final kill: per player, the calls of start_final_kill between their check and their insert
    master_calls,   \* final kill: the requests the main loop has sent to the master, in order
    api_call,       \* handlers: the last request (handler, arguments, state it found)
    api_result,     \* handlers: its response and the events it handed to client_write
    client_raft_node,\* client: ClientState.raft_node (None, or the id of the stored node)
    join_reqs,      \* client: per POST /join request, its position in join_game and what it did
    overload_since, \* windows: per tile, since when the committed state has it under overload
    store,          \* storage: MemStorage (vote, log, state_machine, snapshot)
    store_call      \* storage: the last call of a RaftStorage method and the MemStorage it found

reducerVars == <<game_state, prev_state, last_event, over_at>>
detVars == <<det_events, det_a, det_b>>
snapVars == <<log, sm, snapshot, replica>>
evalVars == <<eval_state, attack_tracker, tick_events, episode, rearm, tick_attackers,
             role, ticked>>
replVars == <<games, kill_list, replicas>>
gridVars == <<grid_c, grid_d, grid_out>>
netVars == <<network_manager, sync_done, net_committed>>
killVars == <<final_kill_manager, final_kills_started, kill_spawns, exited,
             kill_calls, master_calls>>
apiVars == <<api_call, api_result>>
joinVars == <<client_raft_node, join_reqs>>
winVars == <<overload_since>>
storeVars == <<store, store_call>>

vars == <<reducerVars, now, detVars, snapVars, evalVars, replVars, gridVars,
          netVars, killVars, apiVars, joinVars, winVars, storeVars>>

\* What the actions of one part of the model leave alone.
outsideReducer == <<now, detVars, snapVars, evalVars, replVars, gridVars,
                    netVars, killVars, apiVars, joinVars, winVars, storeVars>>
outsideDet == <<reducerVars, snapVars, evalVars, replVars, gridVars, netVars,
                killVars, apiVars, joinVars, winVars, storeVars>>
outsideSnap == <<now, reducerVars, detVars, evalVars, replVars, gridVars,
                 netVars, killVars, apiVars, joinVars, winVars, storeVars>>
outsideEval == <<reducerVars, detVars, snapVars, replVars, gridVars, netVars,
                 killVars, apiVars, joinVars, winVars, storeVars>>
outsideRepl == <<now, reducerVars, detVars, snapVars, evalVars, gridVars,
                 netVars, killVars, apiVars, joinVars, winVars, storeVars>>
outsideGrid == <<now, reducerVars, detVars, snapVars, evalVars, replVars,
                 netVars, killVars, apiVars, joinVars, winVars, storeVars>>
outsideNet == <<now, reducerVars, detVars, snapVars, replVars, gridVars,
                killVars, apiVars, joinVars, winVars, storeVars>>
outsideKill == <<reducerVars, detVars, snapVars, replVars, gridVars, netVars,
                 apiVars, joinVars, winVars, storeVars>>
outsideApi == <<now, reducerVars, detVars, snapVars, replVars, gridVars,
                netVars, killVars, joinVars, winVars, storeVars>>
outsideJoin == <<now, reducerVars, detVars, snapVars, evalVars, replVars,
                 gridVars, netVars, killVars, apiVars, winVars, storeVars>>
outsideWin == <<reducerVars, detVars, snapVars, replVars, gridVars, netVars,
                killVars, apiVars, joinVars, storeVars>>
outsideStore == <<now, reducerVars, detVars, snapVars, evalVars, replVars,
                  gridVars, netVars, killVars, apiVars, joinVars, winVars>>

----------------------------------------------------------------------------
(* Bounds and input sets *)

\* Number of events a reducer run applies.
MaxEvents == 4

PlayerIds == {1, 2}
\* owner_id 0 is the neutral owner (events.rs: "0 = neutral/unowned")
OwnerIds == {0} \cup PlayerIds
Coords == {<<0, 0>>, <<1, 0>>}
Ips == {"10.0.0.1"}
Names == {"A"}
Timestamps == {1000}
\* packet_loss in percent: 0.0 and 0.5
LossValues == {0, 50}
BandwidthValues == {0}

----------------------------------------------------------------------------
(* events.rs *)

NoTarget == [kind |-> "None"]
Coordinate(c) == [kind |-> "Coordinate", coord |-> c]
Player(p) == [kind |-> "Player", player_id |-> p]

Targets == {NoTarget} \cup {Coordinate(c) : c \in Coords} \cup {Player(p) : p \in {1}}

PlayerJoin(p, n, c, ip, cl, ts) ==
    [type |-> "PlayerJoin", player_id |-> p, name |-> n, capital_coord |-> c,
     node_ip |-> ip, is_client |-> cl, timestamp |-> ts]
SetNodeTarget(c, t, ts) ==
    [type |-> "SetNodeTarget", node_coord |-> c, target |-> t, timestamp |-> ts]
NodeCaptured(c, o, ts) ==
    [type |-> "NodeCaptured", node_coord |-> c, new_owner_id |-> o, timestamp |-> ts]
NodeMetricsReport(c, bw, loss, ts) ==
    [type |-> "NodeMetricsReport", node_coord |-> c, bandwidth_in |-> bw,
     packet_loss |-> loss, timestamp |-> ts]
NodeInitializationStarted(c, o, ts) ==
    [type |-> "NodeInitializationStarted", node_coord |-> c, owner_id |-> o, timestamp |-> ts]
NodeInitializationComplete(c, ip, ts) ==
    [type |-> "NodeInitializationComplete", node_coord |-> c, node_ip |-> ip, timestamp |-> ts]

NoEvent == [type |-> "None"]

\* Every GameEvent over the input sets
Events ==
    {PlayerJoin(p, n, c, ip, cl, ts) :
        p \in PlayerIds, n \in Names, c \in Coords, ip \in Ips, cl \in BOOLEAN, ts \in Timestamps}
    \cup {SetNodeTarget(c, t, ts) : c \in Coords, t \in Targets, ts \in Timestamps}
    \cup {NodeCaptured(c, o, ts) : c \in Coords, o \in OwnerIds, ts \in Timestamps}
    \cup {NodeMetricsReport(c, bw, l, ts) :
        c \in Coords, bw \in BandwidthValues, l \in LossValues, ts \in Timestamps}
    \cup {NodeInitializationStarted(c, o, ts) : c \in Coords, o \in OwnerIds, ts \in Timestamps}
    \cup {NodeInitializationComplete(c, ip, ts) : c \in Coords, ip \in Ips, ts \in Timestamps}

----------------------------------------------------------------------------
(* state.rs: GameState and the reducer *)

\* HashMap::insert
Put(f, k, v) == [x \in (DOMAIN f) \cup {k} |-> IF x = k THEN v ELSE f[x]]

EmptyMap == [x \in {} |-> 0]

\* GameState::new
NewGameState ==
    [players |-> EmptyMap, nodes |-> EmptyMap, node_metrics |-> EmptyMap,
     node_ips |-> EmptyMap, client_ips |-> EmptyMap,
     last_applied_log_index |-> 0, game_over |-> FALSE]

\* players.values().filter(|p| p.alive).count()
AliveCount(gs) == Cardinality({p \in DOMAIN gs.players : gs.players[p].alive})

\* process_event, arm PlayerJoin
ApplyPlayerJoin(gs, e) ==
    [gs EXCEPT
        !.players = Put(@, e.player_id,
            [player_id |-> e.player_id, name |-> e.name,
             capital_coord |-> e.capital_coord, alive |-> TRUE,
             join_time |-> e.timestamp]),
        !.nodes = Put(@, e.capital_coord,
            [coord |-> e.capital_coord, owner_id |-> e.player_id,
             node_type |-> IF e.is_client THEN "Client" ELSE "Capital",
             current_target |-> NoTarget, is_client |-> e.is_client,
             init_state |-> "Ready"]),
        !.node_ips = Put(@, e.capital_coord, e.node_ip),
        !.client_ips = IF e.is_client THEN Put(@, e.player_id, e.node_ip) ELSE @]

\* process_event, arm SetNodeTarget
ApplySetNodeTarget(gs, e) ==
    IF e.node_coord \in DOMAIN gs.nodes
    THEN [gs EXCEPT !.nodes[e.node_coord].current_target = e.target]
    ELSE gs

\* Faulty variant: the capture also clears the target of every tile that was
\* attacking the captured tile.
ApplyNodeCaptured_ClearsAttackers(gs, e) ==
    IF e.node_coord \notin DOMAIN gs.nodes THEN gs
    ELSE
        LET node == gs.nodes[e.node_coord]
            old_owner_id == node.owner_id
            g0 == [gs EXCEPT !.nodes = [c \in DOMAIN @ |->
                      IF @[c].current_target = Coordinate(e.node_coord)
                      THEN [@[c] EXCEPT !.current_target = NoTarget]
                      ELSE @[c]]]
            g1 == [g0 EXCEPT !.nodes[e.node_coord].owner_id = e.new_owner_id,
                             !.nodes[e.node_coord].current_target = NoTarget]
        IN  IF node.node_type = "Capital"
            THEN LET g2 == [g1 EXCEPT
                        !.players = IF old_owner_id \in DOMAIN @
                                    THEN [@ EXCEPT ![old_owner_id].alive = FALSE]
                                    ELSE @,
                        !.nodes[e.node_coord].node_type = "Regular"]
                 IN  IF AliveCount(g2) <= 1
                     THEN [g2 EXCEPT !.game_over = TRUE]
                     ELSE g2
            ELSE g1

\* process_event, arm NodeCaptured
ApplyNodeCaptured(gs, e) ==
    IF e.node_coord \notin DOMAIN gs.nodes THEN gs
    ELSE
        LET node == gs.nodes[e.node_coord]
            old_owner_id == node.owner_id
            g1 == [gs EXCEPT !.nodes[e.node_coord].owner_id = e.new_owner_id,
                             !.nodes[e.node_coord].current_target = NoTarget]
        IN  IF node.node_type = "Capital"
            THEN LET g2 == [g1 EXCEPT
                        !.players = IF old_owner_id \in DOMAIN @
                                    THEN [@ EXCEPT ![old_owner_id].alive = FALSE]
                                    ELSE @,
                        !.nodes[e.node_coord].node_type = "Regular"]
                 IN  IF AliveCount(g2) <= 1
                     THEN [g2 EXCEPT !.game_over = TRUE]
                     ELSE g2
            ELSE g1

\* process_event, arm NodeMetricsReport
ApplyNodeMetricsReport(gs, e) ==
    [gs EXCEPT !.node_metrics = Put(@, e.node_coord,
        [bandwidth_in |-> e.bandwidth_in, packet_loss |-> e.packet_loss,
         timestamp |-> e.timestamp])]

\* Faulty variant: the placeholder tile is inserted whether or not the coord
\* already has a tile.
ApplyNodeInitializationStarted_Overwrites(gs, e) ==
    [gs EXCEPT !.nodes = Put(@, e.node_coord,
        [coord |-> e.node_coord, owner_id |-> e.owner_id,
         node_type |-> "Regular", current_target |-> NoTarget,
         is_client |-> FALSE, init_state |-> "Initializing"])]

\* process_event, arm NodeInitializationStarted
ApplyNodeInitializationStarted(gs, e) ==
    IF e.node_coord \notin DOMAIN gs.nodes
    THEN [gs EXCEPT !.nodes = Put(@, e.node_coord,
            [coord |-> e.node_coord, owner_id |-> e.owner_id,
             node_type |-> "Regular", current_target |-> NoTarget,
             is_client |-> FALSE, init_state |-> "Initializing"])]
    ELSE gs

\* process_event, arm NodeInitializationComplete
ApplyNodeInitializationComplete(gs, e) ==
    LET g1 == IF e.node_coord \in DOMAIN gs.nodes
              THEN [gs EXCEPT !.nodes[e.node_coord].init_state = "Ready"]
              ELSE gs
    IN  [g1 EXCEPT !.node_ips = Put(@, e.node_coord, e.node_ip)]

\* process_event: the match over the event (state.rs:88-211)
match_event(gs, event) ==
    CASE event.type = "PlayerJoin" -> ApplyPlayerJoin(gs, event)
      [] event.type = "SetNodeTarget" -> ApplySetNodeTarget(gs, event)
      [] event.type = "NodeCaptured" -> ApplyNodeCaptured(gs, event)
      [] event.type = "NodeMetricsReport" -> ApplyNodeMetricsReport(gs, event)
      [] event.type = "NodeInitializationStarted" -> ApplyNodeInitializationStarted(gs, event)
      [] event.type = "NodeInitializationComplete" -> ApplyNodeInitializationComplete(gs, event)

\* Faulty variant: a join re-opens a finished game.
process_event_JoinReopensGame(gs, event, log_index) ==
    LET g == match_event([gs EXCEPT !.last_applied_log_index = log_index], event)
    IN  IF event.type = "PlayerJoin" THEN [g EXCEPT !.game_over = FALSE] ELSE g

\* Faulty variant: the alive-count check runs for every captured tile, not only
\* for a captured capital.
process_event_CheckOutsideCapital(gs, event, log_index) ==
    LET g == match_event([gs EXCEPT !.last_applied_log_index = log_index], event)
    IN  IF /\ event.type = "NodeCaptured"
           /\ event.node_coord \in DOMAIN gs.nodes
           /\ AliveCount(g) <= 1
        THEN [g EXCEPT !.game_over = TRUE]
        ELSE g

\* Faulty variant: the reducer stamps the joining player with the wall clock of
\* the applying replica instead of the event's timestamp.
process_event_StampsWallClock(gs, event, log_index) ==
    LET g == match_event([gs EXCEPT !.last_applied_log_index = log_index], event)
    IN  IF event.type = "PlayerJoin"
        THEN [g EXCEPT !.players[event.player_id].join_time = now]
        ELSE g

\* GameState::process_event
process_event(gs, event, log_index) ==
    match_event([gs EXCEPT !.last_applied_log_index = log_index], event)

----------------------------------------------------------------------------
(* storage.rs: log entries, the state machine and snapshots *)

\* LogId { leader_id: LeaderId { term, node_id }, index }
LogId(term, node_id, index) ==
    [leader_id |-> [term |-> term, node_id |-> node_id], index |-> index]

\* EntryPayload::{Blank, Normal, Membership}
Blank == [kind |-> "Blank"]
Membership == [kind |-> "Membership"]
Normal(e) == [kind |-> "Normal", event |-> e]

Entry(log_id, payload) == [log_id |-> log_id, payload |-> payload]

\* GameStateMachine as built by MemStorage::new
NewStateMachine ==
    [game_state |-> NewGameState, events |-> <<>>, last_applied_log_index |-> 0]

\* apply_to_state_machine, the body of the loop for one entry
apply_entry(m, entry) ==
    IF entry.payload.kind = "Normal"
    THEN [game_state |-> process_event(m.game_state, entry.payload.event,
                                       entry.log_id.index),
          events |-> Append(m.events, entry.payload.event),
          last_applied_log_index |-> entry.log_id.index]
    ELSE m

\* MemStorage::apply_to_state_machine
RECURSIVE apply_to_state_machine(_, _)
apply_to_state_machine(m, entries) ==
    IF entries = <<>> THEN m
    ELSE apply_to_state_machine(apply_entry(m, Head(entries)), Tail(entries))

\* bincode::serialize of GameStateSnapshot: the length-prefixed events vector
\* followed by last_applied_log_index
serialize(data) ==
    <<Len(data.events)>> \o data.events \o <<data.last_applied_log_index>>

\* bincode::deserialize into GameStateSnapshot
deserialize(bytes) ==
    LET n == bytes[1]
    IN  [events |-> SubSeq(bytes, 2, n + 1), last_applied_log_index |-> bytes[n + 2]]

NoLogId == [none |-> TRUE]

\* MemStorage::build_snapshot: the returned Snapshot { meta, snapshot }
build_snapshot(m) ==
    [meta |-> [last_log_id |-> IF m.last_applied_log_index > 0
                               THEN LogId(0, 0, m.last_applied_log_index)
                               ELSE NoLogId],
     bytes |-> serialize([events |-> m.events,
                          last_applied_log_index |-> m.last_applied_log_index])]

\* The rebuild loop of install_snapshot: process_event(event, idx + 1) for
\* (idx, event) in events.iter().enumerate(); k is idx + 1.
RECURSIVE rebuild(_, _, _)
rebuild(gs, events, k) ==
    IF k > Len(events) THEN gs
    ELSE rebuild(process_event(gs, events[k], k), events, k + 1)

\* MemStorage::install_snapshot: the state machine afterwards
install_snapshot(bytes) ==
    LET snapshot_data == deserialize(bytes)
    IN  [game_state |-> rebuild(NewGameState, snapshot_data.events, 1),
         events |-> snapshot_data.events,
         last_applied_log_index |-> snapshot_data.last_applied_log_index]

NoSnapshot == [none |-> TRUE]
NoReplica == [installed |-> FALSE]

IdleSnap ==
    /\ log = <<>>
    /\ sm = NewStateMachine
    /\ snapshot = NoSnapshot
    /\ replica = NoReplica

IdleDet ==
    /\ det_events = <<>>
    /\ det_a = [gs |-> NewGameState, at |-> <<>>]
    /\ det_b = [gs |-> NewGameState, at |-> <<>>]

----------------------------------------------------------------------------
(* logic.rs: the evaluator.  packet_loss and the threshold are in percent. *)

\* GameConfig::default
OverloadDurationSecs == 10
OverloadThreshold == 20

\* u64::saturating_sub
saturating_sub(a, b) == IF a >= b THEN a - b ELSE 0

\* HashMap::remove
Remove(f, k) == [x \in (DOMAIN f) \ {k} |-> f[x]]

\* Faulty variant: the window has to be exceeded, not reached.
overload_sustained_Strict(current_time, overload_start) ==
    saturating_sub(current_time, overload_start) > OverloadDurationSecs

\* overload_duration >= self.config.overload_duration_secs
overload_sustained(current_time, overload_start) ==
    saturating_sub(current_time, overload_start) >= OverloadDurationSecs

\* The coords of the tiles whose current_target is the coordinate target_coord
attackers_of(gs, target_coord) ==
    {n \in DOMAIN gs.nodes : gs.nodes[n].current_target = Coordinate(target_coord)}

\* metrics.packet_loss >= self.config.overload_threshold, for a tile with metrics
is_overloaded(gs, target_coord) ==
    gs.node_metrics[target_coord].packet_loss >= OverloadThreshold

\* The orders in which nodes.values() may yield the tiles (HashMap iteration)
IterationOrders(gs) ==
    LET n == Cardinality(DOMAIN gs.nodes)
    IN  {o \in [1..n -> DOMAIN gs.nodes] : \A i, j \in 1..n : o[i] = o[j] => i = j}

\* attackers[0]: the first tile of the iteration order that is an attacker
first_attacker(order, attackers) ==
    order[CHOOSE i \in 1..Len(order) :
            /\ order[i] \in attackers
            /\ \A j \in 1..(i - 1) : order[j] \notin attackers]

\* Faulty variant: a loss below the threshold leaves the tracker entry alone.
tick_node_KeepsTracker(acc, gs, order, target_coord, current_time) ==
    LET attackers == attackers_of(gs, target_coord)
    IN  IF attackers = {}
        THEN [acc EXCEPT !.tracker = Remove(@, target_coord)]
        ELSE
          LET attacker == gs.nodes[first_attacker(order, attackers)] IN
          IF target_coord \in DOMAIN gs.node_metrics /\ is_overloaded(gs, target_coord)
          THEN
            LET tracked == IF target_coord \in DOMAIN acc.tracker
                           THEN acc.tracker
                           ELSE Put(acc.tracker, target_coord,
                                    [attacker |-> attacker.owner_id,
                                     start |-> current_time])
            IN  IF overload_sustained(current_time, tracked[target_coord].start)
                THEN [tracker |-> Remove(tracked, target_coord),
                      events |-> Append(acc.events,
                          NodeCaptured(target_coord, tracked[target_coord].attacker,
                                       current_time))]
                ELSE [acc EXCEPT !.tracker = tracked]
          ELSE acc

\* GameLogic::tick, the body of the loop for one tile; acc holds the tracker
\* and the events pushed so far
tick_node(acc, gs, order, target_coord, current_time) ==
    LET attackers == attackers_of(gs, target_coord)
    IN  IF attackers = {}
        THEN [acc EXCEPT !.tracker = Remove(@, target_coord)]
        ELSE
          LET attacker == gs.nodes[first_attacker(order, attackers)] IN
          IF target_coord \in DOMAIN gs.node_metrics
          THEN
            IF is_overloaded(gs, target_coord)
            THEN
              LET tracked == IF target_coord \in DOMAIN acc.tracker
                             THEN acc.tracker
                             ELSE Put(acc.tracker, target_coord,
                                      [attacker |-> attacker.owner_id,
                                       start |-> current_time])
              IN  IF overload_sustained(current_time, tracked[target_coord].start)
                  THEN [tracker |-> Remove(tracked, target_coord),
                        events |-> Append(acc.events,
                            NodeCaptured(target_coord, tracked[target_coord].attacker,
                                         current_time))]
                  ELSE [acc EXCEPT !.tracker = tracked]
            ELSE [acc EXCEPT !.tracker = Remove(@, target_coord)]
          ELSE acc

RECURSIVE tick_loop(_, _, _, _, _)
tick_loop(acc, gs, order, k, current_time) ==
    IF k > Len(order) THEN acc
    ELSE tick_loop(tick_node(acc, gs, order, gs.nodes[order[k]].coord, current_time),
                   gs, order, k + 1, current_time)

\* GameLogic::tick: the tracker afterwards and the returned events
tick(tracker, gs, order, current_time) ==
    tick_loop([tracker |-> tracker, events |-> <<>>], gs, order, 1, current_time)

\* The leader commits the events one by one (main.rs: client_write per event);
\* each is applied at the next log index.
RECURSIVE commit_all(_, _)
commit_all(gs, events) ==
    IF events = <<>> THEN gs
    ELSE commit_all(process_event(gs, Head(events), gs.last_applied_log_index + 1),
                    Tail(events))

IdleEval ==
    /\ eval_state = NewGameState
    /\ attack_tracker = EmptyMap
    /\ tick_events = <<>>
    /\ episode = EmptyMap
    /\ rearm = EmptyMap
    /\ tick_attackers = EmptyMap
    /\ role = "leader"
    /\ ticked = FALSE

----------------------------------------------------------------------------
(* The workers of one game and the master's registry *)

Workers == {"w1", "w2"}

\* generate_node_id: the node id a worker draws at start
NodeIdOf(w) == IF w = "w1" THEN 1 ELSE 2

\* MemStorage::append_to_log: log.insert(entry.log_id.index, entry) per entry
RECURSIVE append_to_log(_, _)
append_to_log(l, entries) ==
    IF entries = <<>> THEN l
    ELSE append_to_log(Put(l, Head(entries).log_id.index, Head(entries)), Tail(entries))

\* What register_and_get_peer has returned to a worker: nothing yet
NoAnswer == [received |-> FALSE, peer |-> <<>>]

\* register_and_get_peer has returned peer: Ok(None) is <<>>, Ok(Some(..)) with
\* the address of worker p is <<p>>.
Answer(peer) == [received |-> TRUE, peer |-> peer]

\* A worker process before main has reached the registry; its storage is
\* MemStorage::new.  applied lists the log indices of the applied events.
NewReplica ==
    [pc |-> "start", log |-> EmptyMap, sm |-> NewStateMachine, applied |-> <<>>,
     answer |-> NoAnswer]

NoKill == [none |-> TRUE]

IdleRepl ==
    /\ games = {}
    /\ kill_list = NoKill
    /\ replicas = [w \in Workers |-> NewReplica]

----------------------------------------------------------------------------
(* grid.rs: axial coordinates *)

\* i32::abs
abs(x) == IF x < 0 THEN -x ELSE x

\* NodeCoord::neighbors, the array in the order of the source
neighbors(c) ==
    <<<<c[1] + 1, c[2]>>,
      <<c[1] - 1, c[2]>>,
      <<c[1], c[2] + 1>>,
      <<c[1], c[2] - 1>>,
      <<c[1] + 1, c[2] - 1>>,
      <<c[1] - 1, c[2] + 1>>>>

\* Faulty variant: the steps along q and r are added up, the diagonal is not
\* taken into account.
distance_NoDiagonal(a, b) == abs(a[1] - b[1]) + abs(a[2] - b[2])

\* NodeCoord::distance
distance(a, b) ==
    LET dq == abs(a[1] - b[1])
        dr == abs(a[2] - b[2])
        ds == abs(a[1] + a[2] - b[1] - b[2])
    IN  (dq + dr + ds) \div 2

\* NodeCoord::is_adjacent
is_adjacent(a, b) == distance(a, b) = 1

\* No function of grid.rs has been called.
NoCall == [fn |-> "none"]

IdleGrid ==
    /\ grid_c = <<0, 0>>
    /\ grid_d = <<0, 0>>
    /\ grid_out = NoCall

----------------------------------------------------------------------------
(* network.rs: NetworkManager *)

\* Option<NodeCoord>: None, Some(c)
NoCoord == <<>>

SomeCoord(c) == <<c>>

\* NetworkManager::new
NewNetworkManager == [my_coord |-> NoCoord, active_attacks |-> {}]

\* NetworkManager::initialize
initialize(nm, my_coord) == [nm EXCEPT !.my_coord = SomeCoord(my_coord)]

\* NetworkManager::start_attack: a flooder toward target_coord is inserted
start_attack(nm, target_coord) ==
    [nm EXCEPT !.active_attacks = @ \cup {target_coord}]

\* NetworkManager::stop_attack
stop_attack(nm, target_coord) ==
    [nm EXCEPT !.active_attacks = @ \ {target_coord}]

\* NetworkManager::sync_with_game_state, the loop over to_stop
RECURSIVE stop_all(_, _)
stop_all(nm, to_stop) ==
    IF to_stop = {} THEN nm
    ELSE LET target == CHOOSE t \in to_stop : TRUE
         IN  stop_all(stop_attack(nm, target), to_stop \ {target})

\* NetworkManager::sync_with_game_state.  should_attack is the current_target
\* of the manager's own tile (the source uses the Option<AttackTarget> as an
\* Option<NodeCoord>; it is taken as the coord of a Coordinate target).
sync_with_game_state(nm, gs, ip_map) ==
    IF nm.my_coord = NoCoord THEN nm
    ELSE
      LET my_coord == nm.my_coord[1]
          should_attack ==
              IF /\ my_coord \in DOMAIN gs.nodes
                 /\ gs.nodes[my_coord].current_target.kind = "Coordinate"
              THEN {gs.nodes[my_coord].current_target.coord}
              ELSE {}
          started ==
              IF \E t \in should_attack :
                     t \notin nm.active_attacks /\ t \in DOMAIN ip_map
              THEN start_attack(nm, CHOOSE t \in should_attack : TRUE)
              ELSE nm
      IN  stop_all(started, started.active_attacks \ should_attack)

\* NetworkManager::get_metrics: nothing without my_coord, else one report per
\* active attack, carrying the coord of the attack's target and the loss and
\* bandwidth its flooder measured.
get_metrics(nm, bandwidth, packet_loss, timestamp) ==
    IF nm.my_coord = NoCoord THEN {}
    ELSE {NodeMetricsReport(target_coord, bandwidth, packet_loss, timestamp) :
              target_coord \in nm.active_attacks}

IdleNet ==
    /\ network_manager = NewNetworkManager
    /\ sync_done = FALSE
    /\ net_committed = {}

----------------------------------------------------------------------------
(* finalkill.rs: FinalKillManager.  An attack is the set of sender tasks   *)
(* one start_final_kill spawned; attacks[i].by tells what ended it.        *)

\* sleep(Duration::from_secs(10)) of the timer task
FinalKillSecs == 10

\* FinalKillManager::new
NewFinalKillManager == [active_kills |-> EmptyMap, attacks |-> <<>>, timers |-> {}]

\* FinalKillManager::start_final_kill from kills.insert on (finalkill.rs:
\* 50-137) at time t: the handle is stored under player_id, the sender tasks
\* and the timer task are spawned.  A handle the map already holds for the
\* player is dropped by the insert; it held the last Sender of its channel,
\* so the senders of that attack see the channel closed and leave their
\* loops ("replaced").
insert_and_spawn(fkm, player_id, t) ==
    LET i == Len(fkm.attacks) + 1
        old == IF player_id \in DOMAIN fkm.active_kills
               THEN [fkm.attacks EXCEPT ![fkm.active_kills[player_id]].stopped = t,
                                        ![fkm.active_kills[player_id]].by = "replaced"]
               ELSE fkm.attacks
    IN  [active_kills |-> Put(fkm.active_kills, player_id, i),
         attacks |-> Append(old,
             [player_id |-> player_id, started |-> t, stopped |-> t, by |-> "running"]),
         timers |-> fkm.timers \cup
             {[player_id |-> player_id, due |-> t + FinalKillSecs, of |-> i]}]

\* FinalKillManager::start_final_kill at time t, run without another task in
\* between: nothing if the player has a handle; else a handle, the sender
\* tasks and the timer task.
start_final_kill(fkm, player_id, t) ==
    IF player_id \in DOMAIN fkm.active_kills THEN fkm
    ELSE insert_and_spawn(fkm, player_id, t)

\* kills.remove(&player_id) and handle.stop_signal.send(()): the senders of
\* the attack whose handle is stored under player_id leave their loops.
remove_and_signal(fkm, player_id, t, by) ==
    IF player_id \in DOMAIN fkm.active_kills
    THEN LET i == fkm.active_kills[player_id]
         IN  [fkm EXCEPT !.active_kills = Remove(@, player_id),
                         !.attacks[i].stopped = t,
                         !.attacks[i].by = by]
    ELSE fkm

\* FinalKillManager::stop_final_kill
stop_final_kill(fkm, player_id, t) == remove_and_signal(fkm, player_id, t, "stop_final_kill")

\* The timer task of one start_final_kill after its sleep
timer_elapsed(fkm, timer, t) ==
    [remove_and_signal(fkm, timer.player_id, t, "timer") EXCEPT !.timers = @ \ {timer}]

\* Faulty variant: the main loop does not consult final_kills_started.
final_kill_due_Unrecorded(gs, started) ==
    {p \in DOMAIN gs.players :
        /\ ~gs.players[p].alive
        /\ p \in DOMAIN gs.client_ips
        /\ gs.players[p].capital_coord \in DOMAIN gs.nodes}

\* main.rs:114-147: the players the iteration starts a final kill for.  The
\* attacker's tiles include the tile at capital_coord, so attacker_nodes is
\* never empty.
final_kill_due(gs, started) ==
    {p \in DOMAIN gs.players :
        /\ ~gs.players[p].alive
        /\ p \notin started
        /\ p \in DOMAIN gs.client_ips
        /\ gs.players[p].capital_coord \in DOMAIN gs.nodes
        /\ LET attacker_id == gs.nodes[gs.players[p].capital_coord].owner_id
           IN  {c \in DOMAIN gs.nodes : gs.nodes[c].owner_id = attacker_id} # {}}

\* The spawned start_final_kill tasks of one iteration
RECURSIVE start_all(_, _, _)
start_all(fkm, players, t) ==
    IF players = {} THEN fkm
    ELSE LET p == CHOOSE x \in players : \A y \in players : x <= y
         IN  start_all(start_final_kill(fkm, p, t), players \ {p}, t)

KillPlayers == {1, 2, 3}

IdleKill ==
    /\ final_kill_manager = NewFinalKillManager
    /\ final_kills_started = {}
    /\ kill_spawns = [p \in KillPlayers |-> [starts |-> 0, ticks |-> 0]]
    /\ exited = FALSE
    /\ kill_calls = [p \in KillPlayers |-> 0]
    /\ master_calls = <<>>

----------------------------------------------------------------------------
(* HTTP handlers: no request has been made.                                *)

IdleApi ==
    /\ api_call = [handler |-> "none", by |-> 0, node |-> <<>>, target |-> <<>>,
                   role |-> "leader", before |-> NewGameState]
    /\ api_result = [status |-> 0, message |-> "", leader |-> <<>>, proposed |-> <<>>]

----------------------------------------------------------------------------
(* client/src/main.rs: POST /join requests to one client process           *)

MaxJoinRequests == 3

JoinRequests == 1..MaxJoinRequests

\* A request that has not reached the handler: no Raft node created (node 0),
\* nothing proposed.
NewJoinRequest == [pc |-> "idle", node |-> 0, leader |-> FALSE, proposed |-> FALSE]

IdleJoin ==
    /\ client_raft_node = <<>>
    /\ join_reqs = [r \in JoinRequests |-> NewJoinRequest]

\* No commit has been watched.
IdleWin == overload_since = [committed |-> EmptyMap, at_tick |-> EmptyMap]

\* Option<Vote<NodeId>>::None
NoVote == [none |-> TRUE]

\* MemStorage::new
NewMemStorage ==
    [vote |-> NoVote, log |-> EmptyMap, state_machine |-> NewStateMachine,
     snapshot |-> NoSnapshot]

\* No method of the storage has been called.
NoStoreCall == [fn |-> "none"]

IdleStore ==
    /\ store = NewMemStorage
    /\ store_call = NoStoreCall

----------------------------------------------------------------------------
(* Reducer runs: any event may be committed (api.rs submit_event takes an  *)
(* arbitrary GameEvent) and is applied at the next log index.              *)

IdleReducer ==
    /\ game_state = NewGameState
    /\ prev_state = NewGameState
    /\ last_event = NoEvent
    /\ over_at = 0

InitReducer ==
    /\ IdleReducer
    /\ now = 0
    /\ IdleDet
    /\ IdleSnap
    /\ IdleEval
    /\ IdleRepl
    /\ IdleGrid
    /\ IdleNet
    /\ IdleKill
    /\ IdleApi
    /\ IdleJoin
    /\ IdleWin
    /\ IdleStore

Commit(e) ==
    /\ game_state.last_applied_log_index < MaxEvents
    /\ LET idx == game_state.last_applied_log_index + 1
           next == process_event(game_state, e, idx)
       IN  /\ game_state' = next
           /\ prev_state' = game_state
           /\ last_event' = e
           /\ over_at' = IF over_at = 0 /\ next.game_over THEN idx ELSE over_at
           /\ UNCHANGED outsideReducer

SubmitPlayerJoin ==
    \E p \in PlayerIds, n \in Names, c \in Coords, ip \in Ips, cl \in BOOLEAN, ts \in Timestamps :
        Commit(PlayerJoin(p, n, c, ip, cl, ts))

SubmitSetNodeTarget ==
    \E c \in Coords, t \in Targets, ts \in Timestamps : Commit(SetNodeTarget(c, t, ts))

SubmitNodeCaptured ==
    \E c \in Coords, o \in OwnerIds, ts \in Timestamps : Commit(NodeCaptured(c, o, ts))

SubmitNodeMetricsReport ==
    \E c \in Coords, bw \in BandwidthValues, l \in LossValues, ts \in Timestamps :
        Commit(NodeMetricsReport(c, bw, l, ts))

SubmitNodeInitializationStarted ==
    \E c \in Coords, o \in OwnerIds, ts \in Timestamps :
        Commit(NodeInitializationStarted(c, o, ts))

SubmitNodeInitializationComplete ==
    \E c \in Coords, ip \in Ips, ts \in Timestamps :
        Commit(NodeInitializationComplete(c, ip, ts))

NextReducer ==
    \/ SubmitPlayerJoin
    \/ SubmitSetNodeTarget
    \/ SubmitNodeCaptured
    \/ SubmitNodeMetricsReport
    \/ SubmitNodeInitializationStarted
    \/ SubmitNodeInitializationComplete

SpecReducer == InitReducer /\ [][NextReducer]_vars

----------------------------------------------------------------------------
(* Properties of the reducer, stated over SpecReducer.  prev_state and     *)
(* last_event describe the last application of process_event.             *)

CapturedExistingTile ==
    /\ last_event.type = "NodeCaptured"
    /\ last_event.node_coord \in DOMAIN prev_state.nodes

\* C3: game_over is monotone: from the log index at which it first became true
\* (over_at) on, it is true in every later state, whatever events follow.
C3_GameOverMonotone ==
    /\ over_at # 0 => game_state.game_over
    /\ prev_state.game_over => game_state.game_over

\* C3 witness: the game was over and a later PlayerJoin (which adds an alive
\* player) has been applied.
C3_Witness ==
    /\ over_at # 0
    /\ game_state.last_applied_log_index > over_at
    /\ last_event.type = "PlayerJoin"
    /\ AliveCount(game_state) >= 2

C5_AliveFlippedOnce ==
    \A p \in DOMAIN prev_state.players :
        /\ (prev_state.players[p].alive /\ ~game_state.players[p].alive)
              => /\ last_event.type = "NodeCaptured"
                 /\ last_event.node_coord = prev_state.players[p].capital_coord
                 /\ last_event.new_owner_id # p
        /\ ~prev_state.players[p].alive => ~game_state.players[p].alive

\* C6: every alive player's capital_coord holds a tile owned by that player.
C6_AliveOwnsCapital ==
    \A p \in DOMAIN game_state.players :
        game_state.players[p].alive
            => /\ game_state.players[p].capital_coord \in DOMAIN game_state.nodes
               /\ game_state.nodes[game_state.players[p].capital_coord].owner_id = p

\* C7: NodeCaptured{coord, new_owner_id} applied to a tile whose owner_id already
\* equals new_owner_id changes nothing but last_applied_log_index.
C7_SameOwnerCaptureIsNoop ==
    (/\ CapturedExistingTile
     /\ prev_state.nodes[last_event.node_coord].owner_id = last_event.new_owner_id)
        => game_state = [prev_state EXCEPT
                            !.last_applied_log_index = game_state.last_applied_log_index]

\* C17: NodeInitializationStarted for a coord that already has a tile leaves
\* that tile (owner_id, node_type, current_target, is_client, init_state) and
\* everything else in the game state unchanged, except last_applied_log_index.
C17_InitStartedIsIdempotent ==
    (/\ last_event.type = "NodeInitializationStarted"
     /\ last_event.node_coord \in DOMAIN prev_state.nodes)
        => /\ game_state.nodes[last_event.node_coord]
                  = prev_state.nodes[last_event.node_coord]
           /\ game_state = [prev_state EXCEPT
                               !.last_applied_log_index = game_state.last_applied_log_index]

\* C17 witness: the event named another owner for a tile that was a capital
\* with a target, and the log index moved on.
C17_Witness ==
    /\ last_event.type = "NodeInitializationStarted"
    /\ last_event.node_coord \in DOMAIN prev_state.nodes
    /\ prev_state.nodes[last_event.node_coord].owner_id # last_event.owner_id
    /\ prev_state.nodes[last_event.node_coord].node_type = "Capital"
    /\ prev_state.nodes[last_event.node_coord].current_target # NoTarget
    /\ game_state.last_applied_log_index = prev_state.last_applied_log_index + 1

\* C27: a tile with init_state Initializing (as NodeInitializationStarted
\* creates it) is still Initializing after any event other than a
\* NodeInitializationComplete for its own coord.
C27_InitializingUntilComplete ==
    /\ (/\ last_event.type = "NodeInitializationStarted"
        /\ last_event.node_coord \notin DOMAIN prev_state.nodes)
           => game_state.nodes[last_event.node_coord].init_state = "Initializing"
    /\ \A c \in DOMAIN prev_state.nodes :
           (/\ prev_state.nodes[c].init_state = "Initializing"
            /\ game_state.nodes[c].init_state # "Initializing")
               => /\ last_event.type = "NodeInitializationComplete"
                  /\ last_event.node_coord = c

\* C30: NodeCaptured applied to an existing tile sets its owner_id to
\* new_owner_id and clears its target; if the tile was a Capital, the previous
\* owner is no longer alive and the tile is Regular; every other tile,
\* node_ips, client_ips and node_metrics are unchanged.  Applied to an absent
\* coord it changes nothing but last_applied_log_index.
C30_NodeCapturedEffect ==
    last_event.type = "NodeCaptured" =>
        LET c == last_event.node_coord
        IN  IF c \in DOMAIN prev_state.nodes
            THEN /\ game_state.nodes[c].owner_id = last_event.new_owner_id
                 /\ game_state.nodes[c].current_target = NoTarget
                 /\ prev_state.nodes[c].node_type = "Capital" =>
                        /\ game_state.nodes[c].node_type = "Regular"
                        /\ prev_state.nodes[c].owner_id \in DOMAIN prev_state.players =>
                               ~game_state.players[prev_state.nodes[c].owner_id].alive
                 /\ DOMAIN game_state.nodes = DOMAIN prev_state.nodes
                 /\ \A d \in DOMAIN prev_state.nodes \ {c} :
                        game_state.nodes[d] = prev_state.nodes[d]
                 /\ game_state.node_ips = prev_state.node_ips
                 /\ game_state.client_ips = prev_state.client_ips
                 /\ game_state.node_metrics = prev_state.node_metrics
            ELSE game_state = [prev_state EXCEPT
                     !.last_applied_log_index = game_state.last_applied_log_index]

\* C30 witness: a capital whose owner was alive has been captured by another
\* owner while another tile was targeting it.
C30_Witness ==
    /\ CapturedExistingTile
    /\ prev_state.nodes[last_event.node_coord].node_type = "Capital"
    /\ prev_state.nodes[last_event.node_coord].owner_id # last_event.new_owner_id
    /\ prev_state.nodes[last_event.node_coord].owner_id \in DOMAIN prev_state.players
    /\ prev_state.players[prev_state.nodes[last_event.node_coord].owner_id].alive
    /\ \E d \in DOMAIN prev_state.nodes \ {last_event.node_coord} :
           /\ prev_state.nodes[d].current_target = Coordinate(last_event.node_coord)
           /\ game_state.nodes[d].current_target = Coordinate(last_event.node_coord)

----------------------------------------------------------------------------
(* Determinism of the reducer: two replicas fold the same committed        *)
(* sequence, the second one later and at another wall-clock time.          *)

\* Length of the committed sequence in a determinism run.
MaxDetEvents == 2

DetTimes == {0, 1}

InitDet ==
    /\ IdleDet
    /\ now = 0
    /\ IdleReducer
    /\ IdleSnap
    /\ IdleEval
    /\ IdleRepl
    /\ IdleGrid
    /\ IdleNet
    /\ IdleKill
    /\ IdleApi
    /\ IdleJoin
    /\ IdleWin
    /\ IdleStore

\* The first replica applies the event when it is committed.
DetCommit ==
    \E e \in Events :
        /\ Len(det_events) < MaxDetEvents
        /\ det_events' = Append(det_events, e)
        /\ det_a' = [gs |-> process_event(det_a.gs, e, Len(det_events) + 1),
                     at |-> Append(det_a.at, now)]
        /\ UNCHANGED <<det_b, now, outsideDet>>

\* The second replica applies its next committed event.
DetApplyLater ==
    /\ Len(det_b.at) < Len(det_events)
    /\ LET idx == Len(det_b.at) + 1
       IN  det_b' = [gs |-> process_event(det_b.gs, det_events[idx], idx),
                     at |-> Append(det_b.at, now)]
    /\ UNCHANGED <<det_events, det_a, now, outsideDet>>

DetTick ==
    /\ now + 1 \in DetTimes
    /\ now' = now + 1
    /\ UNCHANGED <<detVars, outsideDet>>

NextDet == DetCommit \/ DetApplyLater \/ DetTick

SpecDet == InitDet /\ [][NextDet]_vars

----------------------------------------------------------------------------
(* Snapshots: a source replica applies its committed log, builds a         *)
(* snapshot at some point, and a fresh replica installs it and then        *)
(* applies the entries behind the snapshot.                                *)

\* Length of the committed log in a snapshot run.
MaxLogLen == 3

SnapEvents ==
    {PlayerJoin(1, "A", <<0, 0>>, "10.0.0.1", FALSE, 1000),
     PlayerJoin(2, "A", <<1, 0>>, "10.0.0.1", TRUE, 1000),
     SetNodeTarget(<<0, 0>>, Coordinate(<<1, 0>>), 1000),
     NodeCaptured(<<1, 0>>, 1, 1000),
     NodeCaptured(<<0, 0>>, 2, 1000),
     NodeMetricsReport(<<1, 0>>, 0, 50, 1000),
     NodeInitializationStarted(<<1, 0>>, 0, 1000),
     NodeInitializationComplete(<<1, 0>>, "10.0.0.1", 1000)}

InitSnap ==
    /\ IdleSnap
    /\ now = 0
    /\ IdleReducer
    /\ IdleDet
    /\ IdleEval
    /\ IdleRepl
    /\ IdleGrid
    /\ IdleNet
    /\ IdleKill
    /\ IdleApi
    /\ IdleJoin
    /\ IdleWin
    /\ IdleStore

\* The source replica commits one more entry and applies it.
SnapCommit(payload) ==
    /\ Len(log) < MaxLogLen
    /\ LET entry == Entry(LogId(1, 1, Len(log) + 1), payload)
       IN  /\ log' = Append(log, entry)
           /\ sm' = apply_to_state_machine(sm, <<entry>>)
    /\ UNCHANGED <<snapshot, replica, outsideSnap>>

CommitNormal == \E e \in SnapEvents : SnapCommit(Normal(e))

CommitBlank == SnapCommit(Blank)

CommitMembership == SnapCommit(Membership)

\* build_snapshot on the source replica; split and source record the log
\* position and the game state the snapshot was built from.
BuildSnapshot ==
    /\ ~replica.installed
    /\ snapshot' = [snap |-> build_snapshot(sm), split |-> Len(log),
                    source |-> sm.game_state]
    /\ UNCHANGED <<log, sm, replica, outsideSnap>>

\* install_snapshot on a fresh MemStorage.  The replica continues behind
\* meta.last_log_id, the log id build_snapshot reported.
InstallSnapshot ==
    /\ snapshot # NoSnapshot
    /\ ~replica.installed
    /\ LET meta == snapshot.snap.meta
       IN  replica' = [installed |-> TRUE,
                       sm |-> install_snapshot(snapshot.snap.bytes),
                       next |-> IF meta.last_log_id = NoLogId THEN 1
                                ELSE meta.last_log_id.index + 1,
                       tail |-> 0]
    /\ UNCHANGED <<log, sm, snapshot, outsideSnap>>

\* The replica applies the next entry behind the snapshot.
ApplyTail ==
    /\ replica.installed
    /\ replica.next <= Len(log)
    /\ replica' = [replica EXCEPT
                      !.sm = apply_to_state_machine(@, <<log[replica.next]>>),
                      !.next = @ + 1,
                      !.tail = @ + 1]
    /\ UNCHANGED <<log, sm, snapshot, outsideSnap>>

NextSnap ==
    \/ CommitNormal
    \/ CommitBlank
    \/ CommitMembership
    \/ BuildSnapshot
    \/ InstallSnapshot
    \/ ApplyTail

SpecSnap == InitSnap /\ [][NextSnap]_vars

\* C8: install_snapshot(build_snapshot(sm)) on a fresh replica yields a
\* game_state equal in every field, last_applied_log_index included, to the
\* game_state of the source the snapshot was built from, also when the log
\* holds blank or membership entries.
C8_SnapshotRoundTrip ==
    (replica.installed /\ replica.tail = 0)
        => replica.sm.game_state = snapshot.source

\* C9: a replica that installed a snapshot built at a split point of the log
\* and applied the remaining entries has the same GameState as the replica
\* that applied every entry in order from the empty state.
C9_SnapshotPlusTailEqualsReplay ==
    (replica.installed /\ replica.next > Len(log))
        => replica.sm.game_state = sm.game_state

----------------------------------------------------------------------------
(* The evaluator on a leader: between two ticks of the main loop any       *)
(* SetNodeTarget and NodeMetricsReport may be committed.                   *)

\* Number of target and metrics events committed in an evaluator run.
MaxEvalEvents == 3

\* Last wall-clock second of an evaluator run.
MaxClock == 12

\* Seconds between two ticks: sleep(1 s) plus the time the loop body takes.
ClockSteps == {1, 5}

EvalCoords == {<<0, 0>>, <<1, 0>>, <<0, 1>>}

\* packet_loss 0.0 and 0.2
EvalLoss == {0, 20}

\* Two workers have joined, the tile (0, 1) has been initialised and the
\* capital (1, 0) has been pointed at the capital (0, 0).
EvalInitEvents ==
    <<PlayerJoin(1, "A", <<0, 0>>, "10.0.0.1", FALSE, 1000),
      PlayerJoin(2, "A", <<1, 0>>, "10.0.0.1", FALSE, 1000),
      NodeInitializationStarted(<<0, 1>>, 0, 1000),
      NodeInitializationComplete(<<0, 1>>, "10.0.0.1", 1000),
      SetNodeTarget(<<1, 0>>, Coordinate(<<0, 0>>), 1000)>>

InitEval ==
    /\ eval_state = commit_all(NewGameState, EvalInitEvents)
    /\ attack_tracker = EmptyMap
    /\ tick_events = <<>>
    /\ episode = EmptyMap
    /\ rearm = EmptyMap
    /\ tick_attackers = EmptyMap
    /\ role = "leader"
    /\ ticked = FALSE
    /\ now = 0
    /\ IdleReducer
    /\ IdleDet
    /\ IdleSnap
    /\ IdleRepl
    /\ IdleGrid
    /\ IdleNet
    /\ IdleKill
    /\ IdleApi
    /\ IdleJoin
    /\ IdleWin
    /\ IdleStore

EvalCommit(e) ==
    /\ eval_state.last_applied_log_index < Len(EvalInitEvents) + MaxEvalEvents
    /\ eval_state' = process_event(eval_state, e, eval_state.last_applied_log_index + 1)
    /\ UNCHANGED <<attack_tracker, tick_events, episode, rearm, tick_attackers, role,
                   ticked, now, outsideEval>>

EvalSetNodeTarget ==
    \E c \in EvalCoords, ts \in Timestamps :
        \E t \in {NoTarget} \cup {Coordinate(d) : d \in EvalCoords \ {c}} :
            EvalCommit(SetNodeTarget(c, t, ts))

EvalNodeMetricsReport ==
    \E c \in EvalCoords, bw \in BandwidthValues, l \in EvalLoss, ts \in Timestamps :
        EvalCommit(NodeMetricsReport(c, bw, l, ts))

\* The tile has an attacker and reported metrics at or above the threshold.
UnderOverload(gs, c) ==
    /\ attackers_of(gs, c) # {}
    /\ c \in DOMAIN gs.node_metrics
    /\ is_overloaded(gs, c)

\* What a tick at time t sees of the overload windows: a window opens at the
\* first tick at which the tile is under overload and closes at a tick at
\* which it is not; single says that one and the same attacker tile, with one
\* and the same owner, was the only attacker at every tick of the window;
\* done says that a tick of the window before this one had reached the
\* overload duration.
observe(ep, gs, t) ==
    [c \in {d \in DOMAIN gs.nodes : UnderOverload(gs, d)} |->
        LET attackers == attackers_of(gs, c)
            a == CHOOSE n \in attackers : TRUE
        IN  IF c \notin DOMAIN ep
            THEN IF Cardinality(attackers) = 1
                 THEN [single |-> TRUE, t0 |-> t, last |-> t, attacker |-> a,
                       owner |-> gs.nodes[a].owner_id, done |-> FALSE]
                 ELSE [single |-> FALSE]
            ELSE IF /\ ep[c].single
                    /\ attackers = {ep[c].attacker}
                    /\ gs.nodes[a].owner_id = ep[c].owner
                 THEN [ep[c] EXCEPT
                          !.last = t,
                          !.done = @ \/ (ep[c].last - ep[c].t0 >= OverloadDurationSecs)]
                 ELSE [single |-> FALSE]]

\* What a tick at time t sees of the drops of the loss: when a tile inside an
\* overload window (ep, the windows before this tick) reports a loss below
\* the threshold, the drop is recorded with the start t0 of the window it
\* ended (the time of the drop if the window had several attackers); the
\* first later tick at which the loss is at or above the threshold again
\* sets rearmed and its time.
observe_drop(ra, ep, gs, t) ==
    LET low(c) == c \in DOMAIN gs.node_metrics /\ ~is_overloaded(gs, c)
        high(c) == c \in DOMAIN gs.node_metrics /\ is_overloaded(gs, c)
        dropped == {c \in DOMAIN gs.nodes : c \in DOMAIN ep /\ low(c)}
    IN  [c \in dropped \cup DOMAIN ra |->
            IF c \in dropped
            THEN [rearmed |-> FALSE, at |-> t,
                  t0 |-> IF ep[c].single THEN ep[c].t0 ELSE t]
            ELSE IF ~ra[c].rearmed /\ high(c)
                 THEN [ra[c] EXCEPT !.rearmed = TRUE, !.at = t]
                 ELSE ra[c]]

\* What a tick sees of the attackers of the tiles it captures: for every
\* tile of a returned NodeCaptured, the tiles whose current_target is that
\* tile (the vector attackers of logic.rs:66-70), each with its owner_id.
observe_attackers(gs, events) ==
    [c \in {events[i].node_coord : i \in 1..Len(events)} |->
        [a \in attackers_of(gs, c) |-> gs.nodes[a].owner_id]]

\* One iteration of the main loop on the leader (main.rs:99-236): the loop
\* leaves at game over before it reaches the evaluator; otherwise
\* GameLogic::tick runs on the current game state and every returned event
\* is committed.
LeaderTickUntil(max_clock) ==
    \E d \in ClockSteps :
        /\ now + d <= max_clock
        /\ ~eval_state.game_over
        /\ \E order \in IterationOrders(eval_state) :
            LET r == tick(attack_tracker, eval_state, order, now + d)
            IN  /\ now' = now + d
                /\ attack_tracker' = r.tracker
                /\ tick_events' = r.events
                /\ eval_state' = commit_all(eval_state, r.events)
                /\ episode' = observe(episode, eval_state, now + d)
                /\ rearm' = observe_drop(rearm, episode, eval_state, now + d)
                /\ tick_attackers' = observe_attackers(eval_state, r.events)
        /\ ticked' = TRUE
        /\ UNCHANGED role
        /\ UNCHANGED outsideEval

LeaderTick == LeaderTickUntil(MaxClock)

NextEval == EvalSetNodeTarget \/ EvalNodeMetricsReport \/ LeaderTick

SpecEval == InitEval /\ [][NextEval]_vars

CapturesOf(c) == {i \in 1..Len(tick_events) : tick_events[i].node_coord = c}

\* C10: while one attacker tile a (with one owner) is the only attacker of tile
\* c and c's packet_loss is at or above the threshold at every tick from the
\* first such tick t0 on, a tick with now - t0 < overload_duration_secs emits
\* no NodeCaptured for c and the first tick with now - t0 >=
\* overload_duration_secs emits NodeCaptured{c, a.owner_id}.
C10_CaptureLatency ==
    \A c \in DOMAIN episode :
        (episode[c].single /\ ~episode[c].done)
            => IF episode[c].last - episode[c].t0 < OverloadDurationSecs
               THEN CapturesOf(c) = {}
               ELSE \E i \in CapturesOf(c) :
                        tick_events[i] = NodeCaptured(c, episode[c].owner, episode[c].last)

\* C10 witness: the first tick at or after t0 + overload_duration_secs of a
\* single-attacker window emitted the capture, after earlier ticks inside the
\* window.
C10_Witness ==
    \E c \in DOMAIN episode :
        /\ episode[c].single
        /\ ~episode[c].done
        /\ episode[c].last - episode[c].t0 >= OverloadDurationSecs
        /\ CapturesOf(c) # {}
        /\ eval_state.nodes[c].owner_id = episode[c].owner

----------------------------------------------------------------------------
(* The replicas of one game: every worker registers with the master, asks  *)
(* it for a peer and then joins or bootstraps; POST /kill_workers may run  *)
(* on the master at any time.                                              *)

\* Number of events a leader commits in a replication run.
MaxWrites == 2

ReplEvents ==
    {PlayerJoin(1, "A", <<0, 0>>, "10.0.0.1", FALSE, 1000),
     PlayerJoin(2, "A", <<1, 0>>, "10.0.0.1", FALSE, 1000)}

InitRepl ==
    /\ IdleRepl
    /\ now = 0
    /\ IdleReducer
    /\ IdleDet
    /\ IdleSnap
    /\ IdleEval
    /\ IdleGrid
    /\ IdleNet
    /\ IdleKill
    /\ IdleApi
    /\ IdleJoin
    /\ IdleWin
    /\ IdleStore

\* register_and_get_peer, first request: POST /register_worker, handled by
\* the master's register_worker.
RegisterWorker ==
    \E w \in Workers :
        /\ replicas[w].pc = "start"
        /\ games' = games \cup {w}
        /\ replicas' = [replicas EXCEPT ![w].pc = "registered"]
        /\ UNCHANGED <<kill_list, outsideRepl>>

\* The last index of a log (get_log_state)
LastIndex(l) == CHOOSE i \in DOMAIN l : \A j \in DOMAIN l : j <= i

\* register_and_get_peer, second request, the master answers without a peer:
\* main calls bootstrap_cluster.  raft.initialize stores the membership entry
\* at index 0; the only member elects itself in term 1 and stores the blank
\* entry of its term at index 1; both are committed and applied.
GetPeerBootstrap ==
    \E w \in Workers :
        /\ replicas[w].pc = "registered"
        /\ games = {}
        /\ LET entries == <<Entry(LogId(0, 0, 0), Membership),
                            Entry(LogId(1, NodeIdOf(w), 1), Blank)>>
           IN  replicas' = [replicas EXCEPT
                   ![w].pc = "leader",
                   ![w].answer = Answer(<<>>),
                   ![w].log = append_to_log(@, entries),
                   ![w].sm = apply_to_state_machine(@, entries)]
        /\ UNCHANGED <<games, kill_list, outsideRepl>>

\* register_and_get_peer, second request, the master answers with the first
\* worker its iteration of the game's HashMap yields (any registered worker,
\* the asking worker itself included): main calls join_cluster, which creates
\* the Raft node and changes no membership.
GetPeerJoin ==
    \E w \in Workers :
        /\ replicas[w].pc = "registered"
        /\ \E p \in games :
               replicas' = [replicas EXCEPT ![w].pc = "joined",
                                            ![w].answer = Answer(<<p>>)]
        /\ UNCHANGED <<games, kill_list, outsideRepl>>

\* kill_workers on the master up to the loop: the handler clones games and
\* collects the workers.
KillWorkersBegin ==
    /\ kill_list = NoKill
    /\ kill_list' = [workers |-> games]
    /\ UNCHANGED <<games, replicas, outsideRepl>>

\* kill_workers from the loop on: stop_task per collected worker (it may
\* fail, stopped holds the workers for which it succeeded), then games.clear().
KillWorkersFinish ==
    /\ kill_list # NoKill
    /\ \E stopped \in SUBSET kill_list.workers :
           replicas' = [w \in Workers |->
                           IF w \in stopped THEN [replicas[w] EXCEPT !.pc = "stopped"]
                           ELSE replicas[w]]
    /\ games' = {}
    /\ kill_list' = NoKill
    /\ UNCHANGED outsideRepl

\* raft.client_write on a leader (submit_event and the game handlers of
\* api.rs): the entry is appended at the next index, committed by the only
\* member and applied.
ClientWrite ==
    \E w \in Workers, e \in ReplEvents :
        /\ replicas[w].pc = "leader"
        /\ Len(replicas[w].sm.events) < MaxWrites
        /\ LET index == LastIndex(replicas[w].log) + 1
               entry == Entry(LogId(1, NodeIdOf(w), index), Normal(e))
           IN  replicas' = [replicas EXCEPT
                   ![w].log = append_to_log(@, <<entry>>),
                   ![w].sm = apply_to_state_machine(@, <<entry>>),
                   ![w].applied = Append(@, index)]
        /\ UNCHANGED <<games, kill_list, outsideRepl>>

NextRepl ==
    \/ RegisterWorker
    \/ GetPeerBootstrap
    \/ GetPeerJoin
    \/ KillWorkersBegin
    \/ KillWorkersFinish
    \/ ClientWrite

SpecRepl == InitRepl /\ [][NextRepl]_vars

IsPrefix(s, t) == Len(s) <= Len(t) /\ SubSeq(t, 1, Len(s)) = s

Running == {w \in Workers : replicas[w].pc # "stopped"}

\* C1: the event sequences any two running replicas of the game have applied
\* are prefix-comparable, and every replica applies its events in the order of
\* their log indices.
C1_TotalOrder ==
    /\ \A v, w \in Running :
           \/ IsPrefix(replicas[v].sm.events, replicas[w].sm.events)
           \/ IsPrefix(replicas[w].sm.events, replicas[v].sm.events)
    /\ \A w \in Workers :
           \A i, j \in 1..Len(replicas[w].applied) :
               i < j => replicas[w].applied[i] < replicas[w].applied[j]

\* The workers register_and_get_peer has returned to
Answered == {w \in Workers : replicas[w].answer.received}

\* C40: of the workers of the game that register_and_get_peer has returned
\* to, exactly one received no peer (and bootstrapped), and none received its
\* own registered address as its peer.
C40_OneBootstrapNoSelfPeer ==
    /\ Answered # {} =>
           Cardinality({w \in Answered : replicas[w].answer.peer = <<>>}) = 1
    /\ \A w \in Answered : replicas[w].answer.peer # <<w>>

\* C11: after a tick inside an overload window at which the tile's loss is
\* below the threshold the tracker holds no entry for the tile, and no
\* NodeCaptured for the tile is emitted before overload_duration_secs have
\* passed since the next tick at which its loss is at or above the threshold.
C11_DropResetsWindow ==
    \A c \in DOMAIN rearm :
        IF rearm[c].rearmed
        THEN CapturesOf(c) # {} => now - rearm[c].at >= OverloadDurationSecs
        ELSE c \notin DOMAIN attack_tracker /\ CapturesOf(c) = {}

\* C11 witness: a window was ended by a drop of the loss, the loss came back,
\* and a tick at which the ended window would have reached the overload
\* duration emitted no capture, the tracker counting from the return of the
\* loss.
C11_Witness ==
    \E c \in DOMAIN rearm :
        /\ rearm[c].rearmed
        /\ rearm[c].t0 < rearm[c].at
        /\ now - rearm[c].t0 >= OverloadDurationSecs
        /\ now - rearm[c].at < OverloadDurationSecs
        /\ c \in DOMAIN attack_tracker
        /\ attack_tracker[c].start = rearm[c].at
        /\ CapturesOf(c) = {}

\* C31: every NodeCaptured a tick returns for a tile carries the owner_id of
\* a tile that is attacking it at that tick: after the attacker of an overload
\* window has been replaced by a tile of another owner, the capture is not
\* credited to the owner the window started with.
C31_CaptureCreditsCurrentAttacker ==
    \A i \in 1..Len(tick_events) :
        LET c == tick_events[i].node_coord
        IN  \E a \in DOMAIN tick_attackers[c] :
                tick_events[i].new_owner_id = tick_attackers[c][a]

\* C37: whenever the game is over exactly one player is alive, also after an
\* evaluator tick in which two capitals that target each other are both
\* captured.
C37_GameOverHasWinner ==
    eval_state.game_over => AliveCount(eval_state) = 1

(***************************************************************************)
(* The evaluator and the commits between its ticks: a client and two       *)
(* workers have joined, the capital (1, 0) has been pointed at the         *)
(* client's tile (0, 1) and the capital (0, 0) at the capital (1, 0).      *)
(* Every commit is watched, not only the states the ticks run on.          *)
(***************************************************************************)
MaxWinEvents == 3

MaxWinClock == 12

WinInitEvents ==
    <<PlayerJoin(1, "A", <<0, 1>>, "10.0.0.9", TRUE, 1000),
      PlayerJoin(1, "A", <<0, 0>>, "10.0.0.1", FALSE, 1000),
      PlayerJoin(2, "A", <<1, 0>>, "10.0.0.2", FALSE, 1000),
      SetNodeTarget(<<1, 0>>, Coordinate(<<0, 1>>), 1000),
      SetNodeTarget(<<0, 0>>, Coordinate(<<1, 0>>), 1000)>>

\* The tiles the committed state gs has under overload, each with the time
\* since which it has been so without a break: t for a tile that was not
\* under overload in the committed state before.
continue_windows(since, gs, t) ==
    [c \in {d \in DOMAIN gs.nodes : UnderOverload(gs, d)} |->
        IF c \in DOMAIN since THEN since[c] ELSE t]

InitWin ==
    /\ eval_state = commit_all(NewGameState, WinInitEvents)
    /\ attack_tracker = EmptyMap
    /\ tick_events = <<>>
    /\ episode = EmptyMap
    /\ rearm = EmptyMap
    /\ tick_attackers = EmptyMap
    /\ role = "leader"
    /\ ticked = FALSE
    /\ now = 0
    /\ IdleWin
    /\ IdleReducer
    /\ IdleDet
    /\ IdleSnap
    /\ IdleRepl
    /\ IdleGrid
    /\ IdleNet
    /\ IdleKill
    /\ IdleApi
    /\ IdleJoin
    /\ IdleStore

\* An event is committed and applied between two iterations of the main
\* loop; now is the time of the iteration before it, so a window that the
\* commit opens is counted from a time no later than the commit.
WinCommit(e) ==
    /\ eval_state.last_applied_log_index < Len(WinInitEvents) + MaxWinEvents
    /\ eval_state' = process_event(eval_state, e, eval_state.last_applied_log_index + 1)
    /\ overload_since' = [overload_since EXCEPT
                             !.committed = continue_windows(@, eval_state', now)]
    /\ UNCHANGED <<attack_tracker, tick_events, episode, rearm, tick_attackers, role,
                   ticked, now, outsideWin>>

WinSetNodeTarget ==
    \E c \in EvalCoords, ts \in Timestamps :
        \E t \in {NoTarget} \cup {Coordinate(d) : d \in EvalCoords \ {c}} :
            WinCommit(SetNodeTarget(c, t, ts))

WinNodeMetricsReport ==
    \E c \in EvalCoords, bw \in BandwidthValues, l \in EvalLoss, ts \in Timestamps :
        WinCommit(NodeMetricsReport(c, bw, l, ts))

\* One iteration of the main loop on the leader (main.rs:99-236), as
\* LeaderTick; at_tick keeps the windows of the committed state the tick ran
\* on.
WinTick ==
    \E d \in ClockSteps :
        /\ now + d <= MaxWinClock
        /\ ~eval_state.game_over
        /\ \E order \in IterationOrders(eval_state) :
            LET r == tick(attack_tracker, eval_state, order, now + d)
            IN  /\ now' = now + d
                /\ attack_tracker' = r.tracker
                /\ tick_events' = r.events
                /\ eval_state' = commit_all(eval_state, r.events)
        /\ overload_since' =
               [committed |-> continue_windows(overload_since.committed,
                                               eval_state', now'),
                at_tick |-> overload_since.committed]
        /\ ticked' = TRUE
        /\ UNCHANGED <<episode, rearm, tick_attackers, role, outsideWin>>

NextWin == WinSetNodeTarget \/ WinNodeMetricsReport \/ WinTick

SpecWin == InitWin /\ [][NextWin]_vars

\* C32: no NodeCaptured a tick returns is for a tile whose kind is Client
\* (a capture leaves the kind of a Client tile as it is, so the kind after
\* the tick's events are applied is the kind the tick found).
C32_ClientTileNeverCaptured ==
    \A i \in 1..Len(tick_events) :
        eval_state.nodes[tick_events[i].node_coord].node_type # "Client"

\* C38: every NodeCaptured a tick returns for a worker's tile comes at the
\* end of an interval of at least overload_duration_secs throughout which
\* every committed state had the tile targeted with a packet_loss at or above
\* the threshold.
C38_CaptureAfterUnbrokenOverload ==
    \A i \in 1..Len(tick_events) :
        LET c == tick_events[i].node_coord
        IN  eval_state.nodes[c].node_type # "Client"
                => /\ c \in DOMAIN overload_since.at_tick
                   /\ now - overload_since.at_tick[c] >= OverloadDurationSecs

(***************************************************************************)
(* The evaluator over two overload durations: the capital (1, 0) has been  *)
(* pointed at the tile (0, 1), which has reported a loss at the threshold. *)
(***************************************************************************)
MaxLongClock == 22

MaxLongEvents == 1

LongInitEvents ==
    EvalInitEvents \o <<SetNodeTarget(<<1, 0>>, Coordinate(<<0, 1>>), 1000),
                        NodeMetricsReport(<<0, 1>>, 0, 20, 1000)>>

InitLong ==
    /\ eval_state = commit_all(NewGameState, LongInitEvents)
    /\ attack_tracker = EmptyMap
    /\ tick_events = <<>>
    /\ episode = EmptyMap
    /\ rearm = EmptyMap
    /\ tick_attackers = EmptyMap
    /\ role = "leader"
    /\ ticked = FALSE
    /\ now = 0
    /\ IdleReducer
    /\ IdleDet
    /\ IdleSnap
    /\ IdleRepl
    /\ IdleGrid
    /\ IdleNet
    /\ IdleKill
    /\ IdleApi
    /\ IdleJoin
    /\ IdleWin
    /\ IdleStore

LongNodeMetricsReport ==
    \E c \in EvalCoords, bw \in BandwidthValues, l \in EvalLoss, ts \in Timestamps :
        /\ eval_state.last_applied_log_index < Len(LongInitEvents) + MaxLongEvents
        /\ eval_state' = process_event(eval_state, NodeMetricsReport(c, bw, l, ts),
                                       eval_state.last_applied_log_index + 1)
        /\ UNCHANGED <<attack_tracker, tick_events, episode, rearm, tick_attackers, role,
                   ticked, now, outsideEval>>

LongLeaderTick == LeaderTickUntil(MaxLongClock)

NextLong == LongNodeMetricsReport \/ LongLeaderTick

SpecEvalLong == InitLong /\ [][NextLong]_vars

\* C12: while one attacker tile keeps its target on c and c's loss stays at or
\* above the threshold, once a tick of the window has reached the overload
\* duration (and its capture has been applied, c being owned by the
\* attacker's owner) no later tick of the window emits a NodeCaptured for c.
C12_OneCapturePerEpisode ==
    \A c \in DOMAIN episode :
        (/\ episode[c].single
         /\ episode[c].done
         /\ eval_state.nodes[c].owner_id = episode[c].owner)
            => CapturesOf(c) = {}

\* C13: when two or more tiles have current_target = c at the tick that
\* captures c, the NodeCaptured carries the owner of the attacker with the
\* lexicographically smallest (q, r), whatever the order in which the tick
\* visits the tiles.
C13_SmallestAttackerCredited ==
    \A i \in 1..Len(tick_events) :
        LET c == tick_events[i].node_coord
            attackers == DOMAIN tick_attackers[c]
            smallest == CHOOSE a \in attackers :
                            \A b \in attackers :
                                \/ a = b
                                \/ a[1] < b[1]
                                \/ (a[1] = b[1] /\ a[2] < b[2])
        IN  Cardinality(attackers) >= 2
                => tick_events[i].new_owner_id = tick_attackers[c][smallest]

(***************************************************************************)
(* The main loop of one replica, started as the leader of its own group    *)
(* (bootstrap_cluster) or without a group (join_cluster).                  *)
(***************************************************************************)
MaxLoopClock == 11

MaxLoopEvents == 2

\* Faulty variant: every replica takes itself for the leader.
is_leader_Always(r) == TRUE

\* RaftNode::is_leader: metrics.current_leader == Some(self.node_id).  The
\* only member of a bootstrapped group is its leader; a replica started by
\* join_cluster belongs to no group and never sees itself as leader.
is_leader(r) == r = "leader"

\* The game state of a bootstrapped replica holds the committed events; the
\* storage of a joined replica is MemStorage::new and receives nothing.
InitLoop ==
    /\ role \in {"leader", "joined"}
    /\ eval_state = IF role = "leader"
                    THEN commit_all(NewGameState, EvalInitEvents)
                    ELSE NewGameState
    /\ attack_tracker = EmptyMap
    /\ tick_events = <<>>
    /\ episode = EmptyMap
    /\ rearm = EmptyMap
    /\ tick_attackers = EmptyMap
    /\ ticked = FALSE
    /\ now = 0
    /\ IdleReducer
    /\ IdleDet
    /\ IdleSnap
    /\ IdleRepl
    /\ IdleGrid
    /\ IdleNet
    /\ IdleKill
    /\ IdleApi
    /\ IdleJoin
    /\ IdleWin
    /\ IdleStore

\* raft.client_write of a metrics report; on a replica that leads no group
\* the call returns an error and nothing is stored.
LoopNodeMetricsReport ==
    \E c \in EvalCoords, bw \in BandwidthValues, l \in EvalLoss, ts \in Timestamps :
        /\ role = "leader"
        /\ eval_state.last_applied_log_index < Len(EvalInitEvents) + MaxLoopEvents
        /\ eval_state' = process_event(eval_state, NodeMetricsReport(c, bw, l, ts),
                                       eval_state.last_applied_log_index + 1)
        /\ UNCHANGED <<attack_tracker, tick_events, episode, rearm, tick_attackers, role,
                       ticked, now, outsideEval>>

\* One iteration of the main loop (main.rs:99-236): is_leader is read at the
\* top; GameLogic::tick and the proposals of its events are under
\* "if is_leader", the rest of the iteration proposes no NodeCaptured (the
\* network manager built at main.rs:85 has no my_coord, so its sync and its
\* metrics step change nothing here).
MainLoop ==
    IF is_leader(role)
    THEN LeaderTickUntil(MaxLoopClock)
    ELSE \E d \in ClockSteps :
            /\ now + d <= MaxLoopClock
            /\ ~eval_state.game_over
            /\ now' = now + d
            /\ ticked' = FALSE
            /\ UNCHANGED <<eval_state, attack_tracker, tick_events, episode, rearm,
                           tick_attackers, role, outsideEval>>

NextLoop == LoopNodeMetricsReport \/ MainLoop

SpecLoop == InitLoop /\ [][NextLoop]_vars

\* C14: an iteration of the main loop on a replica that is not the leader
\* does not run GameLogic::tick, and every NodeCaptured returned by the
\* evaluator was returned (and proposed) on a replica that is the leader.
C14_OnlyLeaderEvaluates ==
    /\ ticked => role = "leader"
    /\ (\E i \in 1..Len(tick_events) : tick_events[i].type = "NodeCaptured")
           => role = "leader"

\* C14 witness: the leader's evaluator has returned a NodeCaptured, which the
\* same iteration proposed and committed.
C14_Witness ==
    /\ role = "leader"
    /\ ticked
    /\ \E i \in 1..Len(tick_events) :
           /\ tick_events[i].type = "NodeCaptured"
           /\ eval_state.nodes[tick_events[i].node_coord].owner_id
                  = tick_events[i].new_owner_id

\* C15: among the replicas started for the game, at most one reports
\* is_leader = true in any one Raft term (the term of the vote under which a
\* leader wrote the last entry of its log).
C15_LeaderSingleton ==
    \A v, w \in Running :
        LET term(x) == replicas[x].log[LastIndex(replicas[x].log)].log_id.leader_id.term
        IN  (/\ is_leader(replicas[v].pc)
             /\ is_leader(replicas[w].pc)
             /\ term(v) = term(w))
                => v = w

\* The replication run with the progress the program provides: a started
\* worker goes on from its registration to the answer of get_peer and to
\* bootstrap_cluster or join_cluster (main.rs:38-55), and a leader commits a
\* submitted write.  Starting a worker and POST /kill_workers are requests
\* from outside and need not happen.
SpecReplLive ==
    /\ SpecRepl
    /\ WF_vars(GetPeerBootstrap)
    /\ WF_vars(GetPeerJoin)
    /\ WF_vars(ClientWrite)

\* C16: a worker that is the only one started for a new game (it has
\* registered, no other worker of the game has) eventually reports
\* is_leader = true.
C16_SoloBootstrapLeads ==
    \A w \in Workers :
        (/\ replicas[w].pc = "registered"
         /\ games = {w}
         /\ \A v \in Workers \ {w} : replicas[v].pc = "start")
            ~> is_leader(replicas[w].pc)

(***************************************************************************)
(* The functions of grid.rs, called on coords of a bounded range.          *)
(***************************************************************************)
GridRadius == 2

GridCoords == {<<q, r>> : q \in -GridRadius..GridRadius, r \in -GridRadius..GridRadius}

InitGrid ==
    /\ grid_c \in GridCoords
    /\ grid_d \in GridCoords
    /\ grid_out = NoCall
    /\ now = 0
    /\ IdleReducer
    /\ IdleDet
    /\ IdleSnap
    /\ IdleEval
    /\ IdleRepl
    /\ IdleNet
    /\ IdleKill
    /\ IdleApi
    /\ IdleJoin
    /\ IdleWin
    /\ IdleStore

CallNeighbors ==
    /\ grid_out' = [fn |-> "neighbors", value |-> neighbors(grid_c)]
    /\ UNCHANGED <<grid_c, grid_d, outsideGrid>>

CallDistance ==
    /\ grid_out' = [fn |-> "distance", value |-> distance(grid_c, grid_d),
                    back |-> distance(grid_d, grid_c)]
    /\ UNCHANGED <<grid_c, grid_d, outsideGrid>>

CallIsAdjacent ==
    /\ grid_out' = [fn |-> "is_adjacent", value |-> is_adjacent(grid_c, grid_d)]
    /\ UNCHANGED <<grid_c, grid_d, outsideGrid>>

NextGrid == CallNeighbors \/ CallDistance \/ CallIsAdjacent

SpecGrid == InitGrid /\ [][NextGrid]_vars

\* C18: neighbors(c) returns six pairwise-distinct coords other than c, each at
\* distance 1 from c and adjacent to c; a coord at distance 1 from c is one of
\* the six; distance(c, d) = distance(d, c).
C18_NeighborsAtDistanceOne ==
    LET six == {neighbors(grid_c)[i] : i \in 1..6} IN
    /\ grid_out.fn = "neighbors" =>
           /\ Len(grid_out.value) = 6
           /\ \A i, j \in 1..6 : i # j => grid_out.value[i] # grid_out.value[j]
           /\ \A i \in 1..6 :
                  /\ grid_out.value[i] # grid_c
                  /\ distance(grid_c, grid_out.value[i]) = 1
                  /\ is_adjacent(grid_c, grid_out.value[i])
    /\ grid_out.fn = "distance" =>
           /\ grid_out.value = grid_out.back
           /\ grid_out.value = 1 => grid_d \in six
           /\ grid_d \in six => grid_out.value = 1
    /\ grid_out.fn = "is_adjacent" =>
           (grid_out.value <=> grid_d \in six)

\* C18 witness: distance has returned 1 for a coord and its neighbor on the
\* diagonal (q + 1, r - 1), away from the origin.
C18_Witness ==
    /\ grid_out.fn = "distance"
    /\ grid_out.value = 1
    /\ grid_c # <<0, 0>>
    /\ grid_d = <<grid_c[1] + 1, grid_c[2] - 1>>

(***************************************************************************)
(* The network part of the main loop of one worker (main.rs:195-214): the  *)
(* worker runs the capital (0, 0), whose PlayerJoin carried its address.   *)
(***************************************************************************)
MaxNetEvents == 3

\* Reports of the main loop that may be committed after the last submitted event.
MaxNetReports == 1

MyCoord == <<0, 0>>

NetCoords == {<<0, 0>>, <<1, 0>>, <<0, 1>>}

\* Two workers have joined, the tile (0, 1) has been initialised and the
\* capital (1, 0) has been pointed at (0, 0).
NetInitEvents ==
    <<PlayerJoin(1, "A", <<0, 0>>, "10.0.0.1", FALSE, 1000),
      PlayerJoin(2, "A", <<1, 0>>, "10.0.0.2", FALSE, 1000),
      NodeInitializationStarted(<<0, 1>>, 2, 1000),
      NodeInitializationComplete(<<0, 1>>, "10.0.0.3", 1000),
      SetNodeTarget(<<1, 0>>, Coordinate(<<0, 0>>), 1000)>>

\* A bootstrapped replica holds the committed events, a joined one nothing;
\* main builds the manager with NetworkManager::new (main.rs:85).
InitNet ==
    /\ role \in {"leader", "joined"}
    /\ eval_state = IF role = "leader"
                    THEN commit_all(NewGameState, NetInitEvents)
                    ELSE NewGameState
    /\ attack_tracker = EmptyMap
    /\ tick_events = <<>>
    /\ episode = EmptyMap
    /\ rearm = EmptyMap
    /\ tick_attackers = EmptyMap
    /\ ticked = FALSE
    /\ IdleNet
    /\ now = 0
    /\ IdleReducer
    /\ IdleDet
    /\ IdleSnap
    /\ IdleRepl
    /\ IdleGrid
    /\ IdleKill
    /\ IdleApi
    /\ IdleJoin
    /\ IdleWin
    /\ IdleStore

\* A SetNodeTarget submitted to the leader is committed.
NetSetNodeTarget ==
    \E c \in NetCoords, ts \in Timestamps :
        \E t \in {NoTarget} \cup {Coordinate(d) : d \in NetCoords \ {c}} :
            /\ role = "leader"
            /\ eval_state.last_applied_log_index < Len(NetInitEvents) + MaxNetEvents
            /\ eval_state' = process_event(eval_state, SetNodeTarget(c, t, ts),
                                           eval_state.last_applied_log_index + 1)
            /\ sync_done' = FALSE
            /\ UNCHANGED <<network_manager, net_committed, attack_tracker, tick_events,
                           episode, rearm, tick_attackers, role, ticked, outsideNet>>

\* NetworkManager::initialize with the worker's coord.  No code of the
\* repository calls it; the method is part of the crate's public interface.
NetInitialize ==
    /\ network_manager.my_coord = NoCoord
    /\ network_manager' = initialize(network_manager, MyCoord)
    /\ UNCHANGED <<sync_done, net_committed, evalVars, outsideNet>>

\* raft.client_write for every report (main.rs:203-213): the leader of a
\* one-member group commits it, a replica that leads nothing gets an error,
\* logs it and drops the report.
RECURSIVE submit_metrics(_, _, _)
submit_metrics(r, gs, reports) ==
    IF reports = {} \/ ~is_leader(r) THEN gs
    ELSE LET event == CHOOSE e \in reports : TRUE
         IN  submit_metrics(r, process_event(gs, event, gs.last_applied_log_index + 1),
                            reports \ {event})

\* An iteration of the main loop before metrics_tick has reached 5: the sync
\* of the network manager with the game state (main.rs:195-196).
NetSync ==
    /\ network_manager' = sync_with_game_state(network_manager, eval_state,
                                               eval_state.node_ips)
    /\ sync_done' = TRUE
    /\ UNCHANGED <<net_committed, evalVars, outsideNet>>

\* An iteration with metrics_tick >= 5: the sync, then get_metrics and the
\* proposal of every returned report (main.rs:195-214).
NetSyncAndReport ==
    \E bw \in BandwidthValues, l \in EvalLoss, ts \in Timestamps :
        LET nm == sync_with_game_state(network_manager, eval_state, eval_state.node_ips)
            reports == get_metrics(nm, bw, l, ts)
        IN  /\ eval_state.last_applied_log_index
                   < Len(NetInitEvents) + MaxNetEvents + MaxNetReports
            /\ network_manager' = nm
            /\ sync_done' = TRUE
            /\ eval_state' = submit_metrics(role, eval_state, reports)
            /\ net_committed' = IF is_leader(role)
                                THEN net_committed \cup {e.node_coord : e \in reports}
                                ELSE net_committed
            /\ UNCHANGED <<attack_tracker, tick_events, episode, rearm, tick_attackers,
                           role, ticked, outsideNet>>

NextNet == NetSetNodeTarget \/ NetInitialize \/ NetSync \/ NetSyncAndReport

SpecNet == InitNet /\ [][NextNet]_vars

\* The main loop iterates once a second for as long as the worker runs;
\* submissions from outside and NetworkManager::initialize need not happen.
SpecNetLive ==
    /\ SpecNet
    /\ WF_vars(NetSync)
    /\ WF_vars(NetSyncAndReport)

\* C19: after a sync of the worker's tile T against the committed game state,
\* the open flooders are aimed exactly at the tiles whose target is
\* Coordinate(T.coord) and whose IP is known.
C19_ReverseFlood ==
    sync_done =>
        network_manager.active_attacks
            = {a \in attackers_of(eval_state, MyCoord) : a \in DOMAIN eval_state.node_ips}

\* C20: whether the worker is the leader or not, a NodeMetricsReport of its
\* main loop is eventually committed and reflected in node_metrics.
C20_MetricsReachLog ==
    (role \in {"leader", "joined"})
        ~> (\E c \in net_committed : c \in DOMAIN eval_state.node_metrics)

\* C33: a flooder is only open toward a tile whose IP is in node_ips, and
\* after a sync against a committed state in which the worker's tile has a
\* target whose IP is in node_ips (its NodeInitializationComplete or
\* PlayerJoin has been applied) a flooder toward that target is open.
C33_FlooderOnceInitialized ==
    /\ \A t \in network_manager.active_attacks : t \in DOMAIN eval_state.node_ips
    /\ (sync_done /\ MyCoord \in DOMAIN eval_state.nodes) =>
           LET target == eval_state.nodes[MyCoord].current_target
           IN  (target.kind = "Coordinate" /\ target.coord \in DOMAIN eval_state.node_ips)
                   => target.coord \in network_manager.active_attacks

(***************************************************************************)
(* Final kills on a bootstrapped replica: the part of the main loop that   *)
(* triggers them and exits at game over (main.rs:113-193; captures reach   *)
(* the state as committed events), the tasks of the FinalKillManager, and  *)
(* calls of its public start_final_kill and stop_final_kill.  Player 1 has *)
(* joined from a client and holds the capital (0, 0).                      *)
(***************************************************************************)
MaxKillClock == 15

\* The clock is observed every KillStep seconds.
KillStep == 5

MaxKillEvents == 2

MaxKillTicks == 2

MaxKillAttacks == 2

KillCoords == {<<0, 0>>, <<1, 0>>, <<2, 0>>}

KillInitEvents ==
    <<PlayerJoin(1, "A", <<0, 1>>, "10.0.0.9", TRUE, 1000),
      PlayerJoin(1, "A", <<0, 0>>, "10.0.0.1", FALSE, 1000),
      PlayerJoin(2, "A", <<1, 0>>, "10.0.0.2", FALSE, 1000),
      PlayerJoin(3, "A", <<2, 0>>, "10.0.0.3", FALSE, 1000)>>

\* Faulty variant: after a failed POST /kill_workers the master is not asked
\* to stop.
shutdown_StopsAtFailure(workers_ok, master_ok) ==
    IF workers_ok
    THEN <<[endpoint |-> "/kill_workers", ok |-> TRUE],
           [endpoint |-> "/kill", ok |-> master_ok]>>
    ELSE <<[endpoint |-> "/kill_workers", ok |-> FALSE]>>

\* main.rs:150-193, the requests of the shutdown in the order they are sent;
\* workers_ok and master_ok say whether each of them succeeded (the match
\* on either result only prints).
shutdown(workers_ok, master_ok) ==
    <<[endpoint |-> "/kill_workers", ok |-> workers_ok],
      [endpoint |-> "/kill", ok |-> master_ok]>>

\* The game state of a bootstrapped replica holds the committed events; the
\* storage of a joined replica is MemStorage::new and receives nothing.
InitKill ==
    /\ role \in {"leader", "joined"}
    /\ eval_state = IF role = "leader"
                    THEN commit_all(NewGameState, KillInitEvents)
                    ELSE NewGameState
    /\ attack_tracker = EmptyMap
    /\ tick_events = <<>>
    /\ episode = EmptyMap
    /\ rearm = EmptyMap
    /\ tick_attackers = EmptyMap
    /\ ticked = FALSE
    /\ now = 0
    /\ IdleKill
    /\ IdleReducer
    /\ IdleDet
    /\ IdleSnap
    /\ IdleRepl
    /\ IdleGrid
    /\ IdleNet
    /\ IdleApi
    /\ IdleJoin
    /\ IdleWin
    /\ IdleStore

\* A committed NodeCaptured, or the worker join of player 1 once more
KillCommit ==
    \E ev \in {NodeCaptured(c, 2, 1000) : c \in KillCoords} \cup {KillInitEvents[2]} :
        /\ ~exited
        /\ role = "leader"
        /\ eval_state.last_applied_log_index < Len(KillInitEvents) + MaxKillEvents
        /\ eval_state' = process_event(eval_state, ev, eval_state.last_applied_log_index + 1)
        /\ UNCHANGED <<attack_tracker, tick_events, episode, rearm, tick_attackers, role,
                       ticked, now, killVars, outsideKill>>

\* One iteration of the main loop: the final-kill trigger (main.rs:113-147)
\* and the shutdown at game over (main.rs:149-193).
KillMainLoop ==
    LET due == final_kill_due(eval_state, final_kills_started)
        dead == {p \in DOMAIN eval_state.players : ~eval_state.players[p].alive}
    IN  /\ ~exited
        /\ final_kill_manager' = start_all(final_kill_manager, due, now)
        /\ final_kills_started' = final_kills_started \cup due
        /\ kill_spawns' = [p \in KillPlayers |->
               [starts |-> kill_spawns[p].starts + (IF p \in due THEN 1 ELSE 0),
                ticks |-> IF p \in dead /\ kill_spawns[p].ticks < MaxKillTicks
                          THEN kill_spawns[p].ticks + 1
                          ELSE kill_spawns[p].ticks]]
        /\ IF eval_state.game_over /\ is_leader(role)
           THEN \E workers_ok, master_ok \in BOOLEAN :
                    /\ master_calls' = shutdown(workers_ok, master_ok)
                    /\ exited' = TRUE
           ELSE UNCHANGED <<master_calls, exited>>
        /\ UNCHANGED <<kill_calls, evalVars, now, outsideKill>>

\* A call of FinalKillManager::start_final_kill from outside the main loop,
\* up to drop(kills) (finalkill.rs:36-48): under the read lock it looks for a
\* handle of the player; a call that finds one returns and changes nothing,
\* a call that finds none goes on.
KillStartCheck ==
    \E p \in DOMAIN eval_state.client_ips :
        /\ ~exited
        /\ Len(final_kill_manager.attacks) + kill_calls[p] < MaxKillAttacks
        /\ p \notin DOMAIN final_kill_manager.active_kills
        /\ kill_calls' = [kill_calls EXCEPT ![p] = @ + 1]
        /\ UNCHANGED <<final_kill_manager, final_kills_started, kill_spawns, exited,
                       master_calls, evalVars, now, outsideKill>>

\* The rest of a call that found no handle (finalkill.rs:50-139): under the
\* write lock it stores its handle, then it spawns the senders and the timer.
KillStartInsert ==
    \E p \in KillPlayers :
        /\ ~exited
        /\ kill_calls[p] > 0
        /\ final_kill_manager' = insert_and_spawn(final_kill_manager, p, now)
        /\ kill_calls' = [kill_calls EXCEPT ![p] = @ - 1]
        /\ UNCHANGED <<final_kills_started, kill_spawns, exited, master_calls,
                       evalVars, now, outsideKill>>

\* A call of FinalKillManager::stop_final_kill
KillStop ==
    \E p \in DOMAIN eval_state.client_ips :
        /\ ~exited
        /\ final_kill_manager' = stop_final_kill(final_kill_manager, p, now)
        /\ final_kill_manager' # final_kill_manager
        /\ UNCHANGED <<final_kills_started, kill_spawns, exited, kill_calls,
                       master_calls, evalVars, now, outsideKill>>

\* A timer task wakes up (finalkill.rs:128-137)
KillTimer ==
    \E timer \in final_kill_manager.timers :
        /\ ~exited
        /\ timer.due <= now
        /\ final_kill_manager' = timer_elapsed(final_kill_manager, timer, now)
        /\ UNCHANGED <<final_kills_started, kill_spawns, exited, kill_calls,
                       master_calls, evalVars, now, outsideKill>>

\* Time passes; a timer that is due runs first.
KillClock ==
    /\ ~exited
    /\ now + KillStep <= MaxKillClock
    /\ \A timer \in final_kill_manager.timers : timer.due > now
    /\ now' = now + KillStep
    /\ UNCHANGED <<evalVars, killVars, outsideKill>>

NextKill ==
    \/ KillCommit
    \/ KillMainLoop
    \/ KillStartCheck
    \/ KillStartInsert
    \/ KillStop
    \/ KillTimer
    \/ KillClock

SpecKill == InitKill /\ [][NextKill]_vars

\* C21: on one replica the main loop spawns start_final_kill for a given
\* player_id at most once, however many iterations see that player dead.
C21_FinalKillOncePerPlayer ==
    \A p \in KillPlayers : kill_spawns[p].starts <= 1

\* A final kill was started for a player and a later iteration saw the
\* player dead again.
C21_Witness ==
    \E p \in KillPlayers : kill_spawns[p].starts = 1 /\ kill_spawns[p].ticks >= 2

\* C22: every attack that was not stopped by stop_final_kill gets its stop
\* signal exactly FinalKillSecs after its own start: a timer never stops it
\* at another time, and it is not left running past that time or cut by the
\* exit of the process.
C22_TenSecondAttack ==
    \A i \in DOMAIN final_kill_manager.attacks :
        LET a == final_kill_manager.attacks[i]
        IN  /\ a.by = "timer" => a.stopped = a.started + FinalKillSecs
            /\ a.by = "running" => ~exited /\ now <= a.started + FinalKillSecs

\* The worker as main runs it: nothing but the tasks the main loop spawns
\* calls the FinalKillManager.
NextMain == KillCommit \/ KillMainLoop \/ KillTimer \/ KillClock

\* The main loop never stops iterating while the process runs (main.rs:99;
\* every await of an iteration returns).
SpecMain == InitKill /\ [][NextMain]_vars /\ WF_vars(KillMainLoop)

\* What the worker has sent to the master: nothing, or POST /kill_workers
\* and then POST /kill, sent by a leader that saw game_over and has exited.
ShutdownCalls ==
    /\ exited <=> master_calls # <<>>
    /\ master_calls # <<>> =>
           /\ is_leader(role)
           /\ eval_state.game_over
           /\ Len(master_calls) = 2
           /\ master_calls[1].endpoint = "/kill_workers"
           /\ master_calls[2].endpoint = "/kill"
    /\ ~is_leader(role) => master_calls = <<>> /\ ~exited

\* C35: only a leader that sees game_over = true calls the master; it sends
\* POST /kill_workers, then POST /kill, then exits, whether or not the calls
\* succeed, and a leader that sees game_over does reach that exit.  A replica
\* that is not leader sends neither request and does not exit.
C35_LeaderShutsDown ==
    /\ []ShutdownCalls
    /\ (is_leader(role) /\ eval_state.game_over) ~> exited

\* C35 witness: the leader has exited at game over after a POST /kill_workers
\* that failed and the POST /kill it sent all the same.
C35_Witness ==
    /\ exited
    /\ is_leader(role)
    /\ eval_state.game_over
    /\ ~master_calls[1].ok
    /\ master_calls[2].endpoint = "/kill"

\* C36: no call of start_final_kill replaces the handle stored for a player,
\* and no player has more than one attack running at a time.
C36_OneAttackPerPlayer ==
    /\ \A i \in DOMAIN final_kill_manager.attacks :
           final_kill_manager.attacks[i].by # "replaced"
    /\ \A p \in KillPlayers :
           Cardinality({i \in DOMAIN final_kill_manager.attacks :
                           /\ final_kill_manager.attacks[i].player_id = p
                           /\ final_kill_manager.attacks[i].by = "running"}) <= 1

(***************************************************************************)
(* The HTTP handlers over the state machine of one replica: the game       *)
(* commands of the worker API (raft/api.rs) and POST /my/attack of the     *)
(* client (client/src/main.rs), which validates against the state machine  *)
(* of the client's own Raft node.  A handler returns its response and the  *)
(* events it hands to raft.client_write, in order.                         *)
(***************************************************************************)
MaxApiEvents == 2

\* raft.metrics() of the replica: its id and the leader it knows
metrics(r) == [id |-> 1, current_leader |-> IF r = "leader" THEN <<1>> ELSE <<>>]

\* Faulty variant: the handlers skip the leader check.
NotLeader_Never(r) == FALSE

\* metrics.current_leader != Some(metrics.id)
NotLeader(r) == metrics(r).current_leader # <<metrics(r).id>>

Response(status, message, leader, proposed) ==
    [status |-> status, message |-> message, leader |-> leader, proposed |-> proposed]

\* api.rs submit_event
submit_event(r, event) ==
    IF NotLeader(r)
    THEN Response(503, "Not the leader", metrics(r).current_leader, <<>>)
    ELSE Response(200, "Event committed", <<>>, <<event>>)

\* api.rs handle_join_game; player_id is the wall clock in microseconds
handle_join_game(r, gs, player_id, player_name, node_ip, timestamp) ==
    IF NotLeader(r)
    THEN Response(503, "Not the leader", metrics(r).current_leader, <<>>)
    ELSE LET capital_coord == <<Cardinality(DOMAIN gs.players) * 3, 0>>
         IN  Response(200, "joined successfully", <<>>,
                 <<PlayerJoin(player_id, player_name, capital_coord, node_ip, FALSE,
                              timestamp)>>)

\* Faulty variant: the lazy initialization proposes a placeholder for every
\* neighbour of the target, whether or not it has a tile.
handle_attack_command_AllNeighbors(r, gs, node_coord, target_coord, timestamp) ==
    IF NotLeader(r)
    THEN Response(503, "Not the leader", metrics(r).current_leader, <<>>)
    ELSE IF node_coord \notin DOMAIN gs.nodes
    THEN Response(400, "Attacker node does not exist", <<>>, <<>>)
    ELSE IF ~is_adjacent(node_coord, target_coord)
    THEN Response(400, "Nodes are not adjacent", <<>>, <<>>)
    ELSE Response(200, "now attacking", <<>>,
             (IF target_coord \notin DOMAIN gs.nodes
              THEN [i \in 1..6 |->
                       NodeInitializationStarted(neighbors(target_coord)[i], 0, timestamp)]
              ELSE <<>>)
             \o <<SetNodeTarget(node_coord, Coordinate(target_coord), timestamp)>>)

\* api.rs handle_attack_command
handle_attack_command(r, gs, node_coord, target_coord, timestamp) ==
    IF NotLeader(r)
    THEN Response(503, "Not the leader", metrics(r).current_leader, <<>>)
    ELSE IF node_coord \notin DOMAIN gs.nodes
    THEN Response(400, "Attacker node does not exist", <<>>, <<>>)
    ELSE IF ~is_adjacent(node_coord, target_coord)
    THEN Response(400, "Nodes are not adjacent", <<>>, <<>>)
    ELSE LET nodes_to_init ==
                 IF target_coord \notin DOMAIN gs.nodes
                 THEN SelectSeq(neighbors(target_coord),
                                LAMBDA c : c \notin DOMAIN gs.nodes)
                 ELSE <<>>
         IN  Response(200, "now attacking", <<>>,
                 [i \in 1..Len(nodes_to_init) |->
                     NodeInitializationStarted(nodes_to_init[i], 0, timestamp)]
                 \o <<SetNodeTarget(node_coord, Coordinate(target_coord), timestamp)>>)

\* api.rs handle_stop_attack
handle_stop_attack(r, node_coord, timestamp) ==
    IF NotLeader(r)
    THEN Response(503, "Not the leader", metrics(r).current_leader, <<>>)
    ELSE Response(200, "stopped attacking", <<>>,
             <<SetNodeTarget(node_coord, NoTarget, timestamp)>>)

\* client/src/main.rs set_attack_target.  The handler returns
\* Result<Json<String>, String>; axum turns the Err(String) into a plain
\* text body with status 200 as well.  node is the optional (node_q, node_r).
set_attack_target(joined, gs, ctx, node, target_coord, timestamp) ==
    IF ~joined THEN Response(200, "Not joined to any game", <<>>, <<>>)
    ELSE LET node_coord == IF node = NoCoord THEN ctx.capital_coord ELSE node[1]
         IN  IF node_coord \notin DOMAIN gs.nodes
             THEN Response(200, "Node not found", <<>>, <<>>)
             ELSE IF gs.nodes[node_coord].owner_id # ctx.player_id
             THEN Response(200, "You don't own this node", <<>>, <<>>)
             ELSE IF ~is_adjacent(node_coord, target_coord)
             THEN Response(200, "Target must be adjacent to your node", <<>>, <<>>)
             ELSE Response(200, "Attack target set successfully", <<>>,
                      <<SetNodeTarget(node_coord, Coordinate(target_coord), timestamp)>>)

\* The client has joined as player 1 with the Client tile (0, 0); the worker
\* of player 2 holds the capital (1, 0).
ClientCtx == [player_id |-> 1, capital_coord |-> <<0, 0>>]

ApiInitEvents ==
    <<PlayerJoin(1, "A", <<0, 0>>, "10.0.0.9", TRUE, 1000),
      PlayerJoin(2, "A", <<1, 0>>, "10.0.0.2", FALSE, 1000)>>

ApiCoords == {<<0, 0>>, <<1, 0>>, <<0, 1>>, <<2, 0>>}

ApiEvents ==
    {SetNodeTarget(<<1, 0>>, Coordinate(<<0, 0>>), 1000),
     NodeInitializationStarted(<<0, 1>>, 0, 1000)}

Call(handler, by, node, target) ==
    [handler |-> handler, by |-> by, node |-> node, target |-> target,
     role |-> role, before |-> eval_state]

\* The replica leads its own group and holds the committed events, or was
\* started by join_cluster and holds none.
InitApi ==
    /\ role \in {"leader", "joined"}
    /\ eval_state = IF role = "leader"
                    THEN commit_all(NewGameState, ApiInitEvents)
                    ELSE NewGameState
    /\ attack_tracker = EmptyMap
    /\ tick_events = <<>>
    /\ episode = EmptyMap
    /\ rearm = EmptyMap
    /\ tick_attackers = EmptyMap
    /\ ticked = FALSE
    /\ now = 0
    /\ IdleApi
    /\ IdleReducer
    /\ IdleDet
    /\ IdleSnap
    /\ IdleRepl
    /\ IdleGrid
    /\ IdleNet
    /\ IdleKill
    /\ IdleJoin
    /\ IdleWin
    /\ IdleStore

\* A request is served: the events handed to client_write are committed in
\* order on a leader; on any other replica client_write stores nothing.
Serve(call, result) ==
    /\ eval_state.last_applied_log_index < Len(ApiInitEvents) + MaxApiEvents
    /\ api_call' = call
    /\ api_result' = result
    /\ eval_state' = IF is_leader(role) THEN commit_all(eval_state, result.proposed)
                     ELSE eval_state
    /\ UNCHANGED <<attack_tracker, tick_events, episode, rearm, tick_attackers, role,
                   ticked, outsideApi>>

ApiSubmitEvent ==
    \E ev \in ApiEvents :
        Serve(Call("submit_event", 0, NoCoord, NoCoord), submit_event(role, ev))

ApiJoinGame ==
    Serve(Call("join_game", 0, NoCoord, NoCoord),
          handle_join_game(role, eval_state, 3, "A", "10.0.0.3", 1000))

\* POST /game/attack; the request names no player, by is who sent it.
ApiAttack ==
    \E by \in PlayerIds, node_coord \in ApiCoords, target_coord \in ApiCoords :
        Serve(Call("attack", by, SomeCoord(node_coord), SomeCoord(target_coord)),
              handle_attack_command(role, eval_state, node_coord, target_coord, 1000))

ApiStopAttack ==
    \E node_coord \in ApiCoords :
        Serve(Call("stop_attack", 0, SomeCoord(node_coord), NoCoord),
              handle_stop_attack(role, node_coord, 1000))

\* POST /my/attack on the client; state.raft_node is set only after the
\* client's own PlayerJoin was committed through it (main.rs:592-604).
ClientAttack ==
    \E node \in {NoCoord} \cup {SomeCoord(c) : c \in ApiCoords}, target_coord \in ApiCoords :
        Serve(Call("client_attack", ClientCtx.player_id, node, SomeCoord(target_coord)),
              set_attack_target(is_leader(role), eval_state, ClientCtx, node,
                                target_coord, 1000))

NextApi == ApiSubmitEvent \/ ApiJoinGame \/ ApiAttack \/ ApiStopAttack \/ ClientAttack

SpecApi == InitApi /\ [][NextApi]_vars

\* The tile an attack request attacks from
AttackerOf(call) ==
    IF call.node = NoCoord THEN ClientCtx.capital_coord ELSE call.node[1]

\* C23: a game command of the worker API served by a replica that is not
\* the leader hands no event to client_write, leaves the game state as it
\* was and answers 503 "Not the leader" with the leader the replica knows.
C23_NotLeaderRejects ==
    (/\ api_call.handler \in {"submit_event", "join_game", "attack", "stop_attack"}
     /\ api_call.role # "leader")
    => /\ api_result.proposed = <<>>
       /\ eval_state = api_call.before
       /\ api_result.status = 503
       /\ api_result.message = "Not the leader"
       /\ api_result.leader = metrics(api_call.role).current_leader

\* An attack command has been refused by a replica that leads no group.
C23_Witness ==
    /\ api_call.handler = "attack"
    /\ api_call.role = "joined"
    /\ api_result.status = 503

\* C24: an attack request whose target is not at distance 1 from the
\* attacking tile is answered with a 4xx "not adjacent" error and proposes
\* no event.  Stated for requests that pass the checks made before the
\* adjacency check: the replica leads, the attacking tile exists and, on
\* the client, belongs to the player.
C24_NotAdjacentRejected ==
    (/\ api_call.handler \in {"attack", "client_attack"}
     /\ api_call.role = "leader"
     /\ AttackerOf(api_call) \in DOMAIN api_call.before.nodes
     /\ api_call.handler = "client_attack" =>
            api_call.before.nodes[AttackerOf(api_call)].owner_id = api_call.by
     /\ distance(AttackerOf(api_call), api_call.target[1]) # 1)
    => /\ api_result.proposed = <<>>
       /\ api_result.status \in 400..499
       /\ api_result.message \in {"Nodes are not adjacent",
                                  "Target must be adjacent to your node"}

\* C25: an attack request proposes SetNodeTarget only if the attacking tile
\* exists and is owned by the requesting player; otherwise it proposes nothing.
C25_OnlyOwnerAttacks ==
    api_call.handler \in {"attack", "client_attack"}
    => LET node_coord == AttackerOf(api_call)
           owned == /\ node_coord \in DOMAIN api_call.before.nodes
                    /\ api_call.before.nodes[node_coord].owner_id = api_call.by
       IN  /\ (\E i \in DOMAIN api_result.proposed :
                   api_result.proposed[i].type = "SetNodeTarget") => owned
           /\ ~owned => api_result.proposed = <<>>

C29_ClientTileNeverAttacks ==
    \A c \in DOMAIN eval_state.nodes :
        eval_state.nodes[c].is_client => eval_state.nodes[c].current_target = NoTarget

(***************************************************************************)
(* join_game on one client process (client/src/main.rs:528-636).  The      *)
(* handler awaits between its steps, so the steps of several requests      *)
(* interleave.                                                             *)
(***************************************************************************)
InitJoin ==
    /\ now = 0
    /\ IdleJoin
    /\ IdleReducer
    /\ IdleDet
    /\ IdleSnap
    /\ IdleEval
    /\ IdleRepl
    /\ IdleGrid
    /\ IdleNet
    /\ IdleKill
    /\ IdleApi
    /\ IdleWin
    /\ IdleStore

\* main.rs:533-538: the check under the read lock, which is then released
JoinCheck ==
    \E r \in JoinRequests :
        /\ join_reqs[r].pc = "idle"
        /\ join_reqs' = [join_reqs EXCEPT
               ![r].pc = IF client_raft_node # <<>> THEN "rejected" ELSE "checked"]
        /\ UNCHANGED <<client_raft_node, outsideJoin>>

\* main.rs:543-567: the master answers with a peer or without one and
\* join_cluster or bootstrap_cluster creates the Raft node; only a
\* bootstrapped node gets a leader (itself).
JoinCreateNode ==
    \E r \in JoinRequests, bootstrap \in BOOLEAN :
        /\ join_reqs[r].pc = "checked"
        /\ join_reqs' = [join_reqs EXCEPT
               ![r].pc = "created", ![r].node = r, ![r].leader = bootstrap]
        /\ UNCHANGED <<client_raft_node, outsideJoin>>

\* main.rs:569-593: wait_for_leader times out without a leader; else the
\* PlayerJoin is handed to client_write of the new node.
JoinPropose ==
    \E r \in JoinRequests :
        /\ join_reqs[r].pc = "created"
        /\ join_reqs' = [join_reqs EXCEPT
               ![r].pc = IF join_reqs[r].leader THEN "proposed" ELSE "failed",
               ![r].proposed = join_reqs[r].leader]
        /\ UNCHANGED <<client_raft_node, outsideJoin>>

\* main.rs:595-604: player_context and raft_node are stored
JoinStore ==
    \E r \in JoinRequests :
        /\ join_reqs[r].pc = "proposed"
        /\ client_raft_node' = <<join_reqs[r].node>>
        /\ join_reqs' = [join_reqs EXCEPT ![r].pc = "done"]
        /\ UNCHANGED outsideJoin

NextJoin == JoinCheck \/ JoinCreateNode \/ JoinPropose \/ JoinStore

SpecJoin == InitJoin /\ [][NextJoin]_vars

\* C28: over all POST /join requests to one client at most one PlayerJoin is
\* proposed, at most one Raft node is created and at most one request joins.
C28_JoinsAtMostOnce ==
    /\ Cardinality({r \in JoinRequests : join_reqs[r].proposed}) <= 1
    /\ Cardinality({r \in JoinRequests : join_reqs[r].node # 0}) <= 1
    /\ Cardinality({r \in JoinRequests : join_reqs[r].pc = "done"}) <= 1

----------------------------------------------------------------------------
(* storage.rs, the log of MemStorage: Raft saves votes, appends entries    *)
(* and deletes conflicting entries, in any order and with any arguments.   *)

\* Largest log index of a storage run.
MaxStoreIndex == 3

\* LeaderId { term, node_id } of the two leaders whose entries the log holds
StoreLeaders == {[term |-> 1, node_id |-> 1], [term |-> 2, node_id |-> 2]}

StoreIndexes == 1..MaxStoreIndex

\* save_vote
save_vote(st, vote) == [st EXCEPT !.vote = vote]

\* Faulty variant: every entry from the index on is removed.
delete_conflict_logs_since_Truncate(st, log_id) ==
    LET l == st.log
    IN  [st EXCEPT !.log = [i \in {j \in DOMAIN l : j < log_id.index} |-> l[i]]]

\* delete_conflict_logs_since: log.retain(|&index, entry| index < log_id.index
\* || entry.log_id.leader_id == log_id.leader_id)
delete_conflict_logs_since(st, log_id) ==
    LET l == st.log
        retained == {j \in DOMAIN l :
                        \/ j < log_id.index
                        \/ l[j].log_id.leader_id = log_id.leader_id}
    IN  [st EXCEPT !.log = [i \in retained |-> l[i]]]

\* The entries a leader sends for the indexes first..last
LeaderEntries(leader, first, last) ==
    [k \in 1..(last - first + 1) |->
        Entry(LogId(leader.term, leader.node_id, first + k - 1), Blank)]

\* get_log_state: the index of the last entry, 0 for an empty log
last_log_index(st) == IF DOMAIN st.log = {} THEN 0 ELSE LastIndex(st.log)

InitStore ==
    /\ store = NewMemStorage
    /\ store_call = NoStoreCall
    /\ now = 0
    /\ IdleReducer
    /\ IdleDet
    /\ IdleSnap
    /\ IdleEval
    /\ IdleRepl
    /\ IdleGrid
    /\ IdleNet
    /\ IdleKill
    /\ IdleApi
    /\ IdleJoin
    /\ IdleWin

StoreSaveVote ==
    \E leader \in StoreLeaders :
        LET vote == [leader_id |-> leader, committed |-> FALSE]
        IN  /\ store' = save_vote(store, vote)
            /\ store_call' = [fn |-> "save_vote", before |-> store]
            /\ UNCHANGED outsideStore

\* append_to_log with the entries of one leader for a range of indexes that
\* leaves no gap after the last entry of the log; after_delete says that the
\* call follows a delete_conflict_logs_since from the first of its indexes.
StoreAppend ==
    \E leader \in StoreLeaders, first, last \in StoreIndexes :
        /\ first <= last
        /\ first <= last_log_index(store) + 1
        /\ store' = [store EXCEPT
                        !.log = append_to_log(@, LeaderEntries(leader, first, last))]
        /\ store_call' =
               [fn |-> "append_to_log", before |-> store, first |-> first,
                last |-> last,
                after_delete |-> /\ store_call.fn = "delete_conflict_logs_since"
                                 /\ store_call.log_id.index = first]
        /\ UNCHANGED outsideStore

StoreDelete ==
    \E leader \in StoreLeaders, index \in StoreIndexes :
        LET log_id == LogId(leader.term, leader.node_id, index)
        IN  /\ store' = delete_conflict_logs_since(store, log_id)
            /\ store_call' = [fn |-> "delete_conflict_logs_since",
                              before |-> store, log_id |-> log_id]
            /\ UNCHANGED outsideStore

NextStore == StoreSaveVote \/ StoreAppend \/ StoreDelete

SpecStore == InitStore /\ [][NextStore]_vars

\* The indexes delete_conflict_logs_since(log_id) is to remove from the log l
Conflicting(l, log_id) ==
    {i \in DOMAIN l : i >= log_id.index /\ l[i].log_id.leader_id # log_id.leader_id}

\* C34: delete_conflict_logs_since(log_id) removes exactly the entries with
\* an index at or above log_id.index whose leader_id differs from
\* log_id.leader_id, keeps every other entry as it was and changes neither
\* the vote nor the state machine nor the snapshot.
C34_DeletesExactlyConflicts ==
    store_call.fn = "delete_conflict_logs_since" =>
        LET before == store_call.before
            removed == Conflicting(before.log, store_call.log_id)
        IN  /\ DOMAIN store.log = (DOMAIN before.log) \ removed
            /\ \A i \in DOMAIN store.log : store.log[i] = before.log[i]
            /\ store.vote = before.vote
            /\ store.state_machine = before.state_machine
            /\ store.snapshot = before.snapshot

\* C34 witness: a call that, with a vote saved, removed an entry of another
\* leader, kept an entry of the same leader at or above the index and kept
\* an entry of another leader below it.
C34_Witness ==
    /\ store_call.fn = "delete_conflict_logs_since"
    /\ store.vote # NoVote
    /\ LET before == store_call.before
           log_id == store_call.log_id
       IN  /\ Conflicting(before.log, log_id) # {}
           /\ \E i \in DOMAIN store.log :
                  /\ i >= log_id.index
                  /\ store.log[i].log_id.leader_id = log_id.leader_id
           /\ \E i \in DOMAIN store.log :
                  /\ i < log_id.index
                  /\ store.log[i].log_id.leader_id # log_id.leader_id

\* C39: after delete_conflict_logs_since(log_id) the log holds no entry with
\* an index at or above log_id.index, and after the append_to_log that
\* follows it the log is the contiguous sequence of indexes up to the last
\* appended one.
C39_NoStaleEntryLeft ==
    /\ store_call.fn = "delete_conflict_logs_since" =>
           \A i \in DOMAIN store.log : i < store_call.log_id.index
    /\ (store_call.fn = "append_to_log" /\ store_call.after_delete) =>
           DOMAIN store.log = 1..store_call.last

====
